---------------------------- MODULE Spec2Model ----------------------------
(***************************************************************************)
(* A model of the saba rendering pipeline (saba_core::renderer):           *)
(* HTML tokenizer -> tree builder -> CSS tokenizer/parser -> JS lexer,     *)
(* parser and runtime -> layout tree, sizes, positions -> display list,    *)
(* with the Page controller's hit testing.                                 *)
(*                                                                         *)
(* Strings are sequences of one-character strings (Vec<char>); a usize     *)
(* position is kept 0-based as in the source, so input[pos] of the source  *)
(* is input[pos + 1] here.  A Rust panic (index out of bounds, assert!,    *)
(* panic!, unimplemented!, expect on None, RefCell double borrow) is an    *)
(* explicit outcome of the operator that models the panicking function.    *)
(***************************************************************************)
EXTENDS Integers, Sequences, FiniteSets, TLC

VARIABLES
    tokenizer,      \* HtmlTokenizer: state, pos, reconsume, latest_token, input, buf
    token,          \* the value the last HtmlTokenizer::next() returned / construct_tree's `token`
    parser,         \* HtmlParser: mode, original_insertion_mode, stack_of_open_elements
    dom,            \* the arena of DOM nodes reachable from Window::document (node 1)
    css,            \* CssTokenizer/CssParser: input, pos, rules
    js,             \* JsRuntime: program, next statement, functions, environments
    page,           \* Page: style, layout_view, display_items
    clicked,        \* the value the last Page::clicked returned
    net,            \* handle_url / HttpResponse::new: input, requests, responses, result
    pc              \* position of the driver (which operation runs next, or "panic")

vars == <<tokenizer, token, parser, dom, css, js, page, clicked, net, pc>>

(***************************************************************************)
(* Characters                                                              *)
(***************************************************************************)
UpperChars == <<"A","B","C","D","E","F","G","H","I","J","K","L","M",
                "N","O","P","Q","R","S","T","U","V","W","X","Y","Z">>
LowerChars == <<"a","b","c","d","e","f","g","h","i","j","k","l","m",
                "n","o","p","q","r","s","t","u","v","w","x","y","z">>
DigitChars == <<"0","1","2","3","4","5","6","7","8","9">>

SeqRange(s) == {s[i] : i \in 1..Len(s)}

IsAsciiUppercase(c) == c \in SeqRange(UpperChars)
IsAsciiLowercase(c) == c \in SeqRange(LowerChars)
IsAsciiAlphabetic(c) == IsAsciiUppercase(c) \/ IsAsciiLowercase(c)
IsAsciiDigit(c) == c \in SeqRange(DigitChars)
IsAsciiAlphanumeric(c) == IsAsciiAlphabetic(c) \/ IsAsciiDigit(c)

ToAsciiLowercase(c) ==
    IF IsAsciiUppercase(c)
    THEN LowerChars[CHOOSE i \in 1..Len(UpperChars) : UpperChars[i] = c]
    ELSE c

DigitValue(c) == (CHOOSE i \in 1..Len(DigitChars) : DigitChars[i] = c) - 1

None == [type |-> "None"]

(***************************************************************************)
(* HTML tokenizer (renderer/html/token.rs)                                 *)
(***************************************************************************)
NewAttribute == [name |-> <<>>, value |-> <<>>]

\* Attribute::add_char
AddChar(attr, c, is_name) ==
    IF is_name THEN [attr EXCEPT !.name = Append(@, c)]
               ELSE [attr EXCEPT !.value = Append(@, c)]

TokChar(c) == [type |-> "Char", c |-> c]
TokEof == [type |-> "Eof"]
TokStartTag(tag, self_closing, attributes) ==
    [type |-> "StartTag", tag |-> tag, self_closing |-> self_closing,
     attributes |-> attributes]
TokEndTag(tag) == [type |-> "EndTag", tag |-> tag]

\* HtmlTokenizer::new
NewTokenizer(html) ==
    [state |-> "Data", pos |-> 0, reconsume |-> FALSE, latest_token |-> None,
     input |-> html, buf |-> <<>>]

\* HtmlTokenizer::is_eof
IsEof(t) == t.pos > Len(t.input)

\* HtmlTokenizer::create_tag
CreateTag(t, start_tag_token) ==
    [t EXCEPT !.latest_token =
        IF start_tag_token THEN TokStartTag(<<>>, FALSE, <<>>) ELSE TokEndTag(<<>>)]

\* HtmlTokenizer::append_tag_name (latest_token is a StartTag or an EndTag
\* wherever the state machine calls it)
AppendTagName(t, c) == [t EXCEPT !.latest_token.tag = Append(@, c)]

\* HtmlTokenizer::start_new_attribute panics unless latest_token is a StartTag
StartNewAttributePanics(t) == t.latest_token.type # "StartTag"
StartNewAttribute(t) ==
    [t EXCEPT !.latest_token.attributes = Append(@, NewAttribute)]

\* HtmlTokenizer::append_attribute panics unless latest_token is a StartTag
\* holding at least one attribute
AppendAttributePanics(t) ==
    \/ t.latest_token.type # "StartTag"
    \/ Len(t.latest_token.attributes) = 0
AppendAttribute(t, c, is_name) ==
    LET n == Len(t.latest_token.attributes)
    IN  [t EXCEPT !.latest_token.attributes[n] = AddChar(@, c, is_name)]

\* HtmlTokenizer::set_self_closing_flag panics unless latest_token is a StartTag
SetSelfClosingFlagPanics(t) == t.latest_token.type # "StartTag"
SetSelfClosingFlag(t) == [t EXCEPT !.latest_token.self_closing = TRUE]

\* One result of the tokenizer's loop body: go round again, return a token,
\* or panic.
Continue(t) == [t |-> t, out |-> None, done |-> FALSE, panic |-> FALSE]
Return(t, tok) == [t |-> t, out |-> tok, done |-> TRUE, panic |-> FALSE]
Panic(t) == [t |-> t, out |-> None, done |-> TRUE, panic |-> TRUE]

\* HtmlTokenizer::take_latest_token, as used in `return self.take_latest_token()`
TakeLatestToken(t) ==
    IF t.latest_token.type = "None" THEN Panic(t)
    ELSE Return([t EXCEPT !.latest_token = None], t.latest_token)

\* The `match self.state` of HtmlTokenizer::next for the character c.
TokenizerMatch(t, c) ==
    CASE t.state = "Data" ->
            IF c = "<" THEN Continue([t EXCEPT !.state = "TagOpen"])
            ELSE IF IsEof(t) THEN Return(t, TokEof)
            ELSE Return(t, TokChar(c))
      [] t.state = "TagOpen" ->
            IF c = "/" THEN Continue([t EXCEPT !.state = "EndTagOpen"])
            ELSE IF IsAsciiAlphabetic(c)
                 THEN Continue(CreateTag([t EXCEPT !.reconsume = TRUE,
                                                   !.state = "TagName"], TRUE))
            ELSE IF IsEof(t) THEN Return(t, TokEof)
            ELSE Continue([t EXCEPT !.reconsume = TRUE, !.state = "Data"])
      [] t.state = "EndTagOpen" ->
            IF IsEof(t) THEN Return(t, TokEof)
            ELSE IF IsAsciiAlphabetic(c)
                 THEN Continue(CreateTag([t EXCEPT !.reconsume = TRUE,
                                                   !.state = "TagName"], FALSE))
            ELSE Continue(t)
      [] t.state = "TagName" ->
            IF c = " " THEN Continue([t EXCEPT !.state = "BeforeAttributeName"])
            ELSE IF c = "/" THEN Continue([t EXCEPT !.state = "SelfClosingStartTag"])
            ELSE IF c = ">" THEN TakeLatestToken([t EXCEPT !.state = "Data"])
            ELSE IF IsAsciiUppercase(c)
                 THEN Continue(AppendTagName(t, ToAsciiLowercase(c)))
            ELSE IF IsEof(t) THEN Return(t, TokEof)
            ELSE Continue(AppendTagName(t, c))
      [] t.state = "BeforeAttributeName" ->
            IF c = "/" \/ c = ">" \/ IsEof(t)
            THEN Continue([t EXCEPT !.reconsume = TRUE,
                                    !.state = "AfterAttributeName"])
            ELSE IF StartNewAttributePanics(t) THEN Panic(t)
            ELSE Continue(StartNewAttribute([t EXCEPT !.reconsume = TRUE,
                                                      !.state = "AttributeName"]))
      [] t.state = "AttributeName" ->
            IF c = " " \/ c = "/" \/ c = ">" \/ IsEof(t)
            THEN Continue([t EXCEPT !.reconsume = TRUE,
                                    !.state = "AfterAttributeName"])
            ELSE IF c = "="
                 THEN Continue([t EXCEPT !.state = "BeforeAttributeValue"])
            ELSE IF AppendAttributePanics(t) THEN Panic(t)
            ELSE IF IsAsciiUppercase(c)
                 THEN Continue(AppendAttribute(t, ToAsciiLowercase(c), TRUE))
            ELSE Continue(AppendAttribute(t, c, TRUE))
      [] t.state = "AfterAttributeName" ->
            IF c = " " THEN Continue(t)
            ELSE IF c = "/" THEN Continue([t EXCEPT !.state = "SelfClosingStartTag"])
            ELSE IF c = "=" THEN Continue([t EXCEPT !.state = "BeforeAttributeValue"])
            ELSE IF c = ">" THEN TakeLatestToken([t EXCEPT !.state = "Data"])
            ELSE IF IsEof(t) THEN Return(t, TokEof)
            ELSE IF StartNewAttributePanics(t) THEN Panic(t)
            ELSE Continue(StartNewAttribute([t EXCEPT !.reconsume = TRUE,
                                                      !.state = "AttributeName"]))
      [] t.state = "BeforeAttributeValue" ->
            IF c = " " THEN Continue(t)
            ELSE IF c = "\""
                 THEN Continue([t EXCEPT !.state = "AttributeValueDoubleQuoted"])
            ELSE IF c = "'"
                 THEN Continue([t EXCEPT !.state = "AttributeValueSingleQuoted"])
            ELSE Continue([t EXCEPT !.reconsume = TRUE,
                                    !.state = "AttributeValueUnquoted"])
      [] t.state = "AttributeValueDoubleQuoted" ->
            IF c = "\""
            THEN Continue([t EXCEPT !.state = "AfterAttributeValueQuoted"])
            ELSE IF IsEof(t) THEN Return(t, TokEof)
            ELSE IF AppendAttributePanics(t) THEN Panic(t)
            ELSE Continue(AppendAttribute(t, c, FALSE))
      [] t.state = "AttributeValueSingleQuoted" ->
            IF c = "'"
            THEN Continue([t EXCEPT !.state = "AfterAttributeValueQuoted"])
            ELSE IF IsEof(t) THEN Return(t, TokEof)
            ELSE IF AppendAttributePanics(t) THEN Panic(t)
            ELSE Continue(AppendAttribute(t, c, FALSE))
      [] t.state = "AttributeValueUnquoted" ->
            IF c = " " THEN Continue([t EXCEPT !.state = "BeforeAttributeName"])
            ELSE IF c = ">" THEN TakeLatestToken([t EXCEPT !.state = "Data"])
            ELSE IF IsEof(t) THEN Return(t, TokEof)
            ELSE IF AppendAttributePanics(t) THEN Panic(t)
            ELSE Continue(AppendAttribute(t, c, FALSE))
      [] t.state = "AfterAttributeValueQuoted" ->
            IF c = " " THEN Continue([t EXCEPT !.state = "BeforeAttributeName"])
            ELSE IF c = "/" THEN Continue([t EXCEPT !.state = "SelfClosingStartTag"])
            ELSE IF c = ">" THEN TakeLatestToken([t EXCEPT !.state = "Data"])
            ELSE IF IsEof(t) THEN Return(t, TokEof)
            ELSE Continue([t EXCEPT !.reconsume = TRUE,
                                    !.state = "BeforeAttributeName"])
      [] t.state = "SelfClosingStartTag" ->
            IF c = ">"
            THEN IF SetSelfClosingFlagPanics(t) THEN Panic(t)
                 ELSE TakeLatestToken(SetSelfClosingFlag([t EXCEPT !.state = "Data"]))
            ELSE IF IsEof(t) THEN Return(t, TokEof)
            ELSE Continue(t)
      [] t.state = "ScriptData" ->
            IF c = "<" THEN Continue([t EXCEPT !.state = "ScriptDataLessThanSign"])
            ELSE IF IsEof(t) THEN Return(t, TokEof)
            ELSE Return(t, TokChar(c))
      [] t.state = "ScriptDataLessThanSign" ->
            IF c = "/"
            THEN Continue([t EXCEPT !.buf = <<>>, !.state = "ScriptDataEndTagOpen"])
            ELSE Return([t EXCEPT !.reconsume = TRUE, !.state = "ScriptData"],
                        TokChar("<"))
      [] t.state = "ScriptDataEndTagOpen" ->
            IF IsAsciiAlphabetic(c)
            THEN Continue(CreateTag([t EXCEPT !.reconsume = TRUE,
                                              !.state = "ScriptDataEndTagName"], FALSE))
            ELSE Return([t EXCEPT !.reconsume = TRUE, !.state = "ScriptData"],
                        TokChar("<"))
      [] t.state = "ScriptDataEndTagName" ->
            IF c = ">" THEN TakeLatestToken([t EXCEPT !.state = "Data"])
            ELSE IF IsAsciiAlphabetic(c)
                 THEN Continue(AppendTagName([t EXCEPT !.buf = Append(@, c)],
                                             ToAsciiLowercase(c)))
            ELSE Continue([t EXCEPT !.state = "TemporaryBuffer",
                                    !.buf = <<"<", "/">> \o @ \o <<c>>])
      [] t.state = "TemporaryBuffer" ->
            IF Len(t.buf) = 0
            THEN Continue([t EXCEPT !.reconsume = TRUE, !.state = "ScriptData"])
            ELSE Return([t EXCEPT !.reconsume = TRUE, !.buf = Tail(@)],
                        TokChar(Head(t.buf)))

\* The `loop` of HtmlTokenizer::next: read a character (reconsume_input or
\* consume_next_input, which indexes self.input without a bounds check) and
\* dispatch on the state.
RECURSIVE TokenizerLoop(_)
TokenizerLoop(t) ==
    IF t.reconsume
    THEN LET r == TokenizerMatch([t EXCEPT !.reconsume = FALSE], t.input[t.pos])
         IN  IF r.done THEN r ELSE TokenizerLoop(r.t)
    ELSE IF t.pos >= Len(t.input) THEN Panic(t)
    ELSE LET r == TokenizerMatch([t EXCEPT !.pos = @ + 1], t.input[t.pos + 1])
         IN  IF r.done THEN r ELSE TokenizerLoop(r.t)

\* HtmlTokenizer::next
TokenizerNext(t) ==
    IF t.pos >= Len(t.input) THEN Return(t, None) ELSE TokenizerLoop(t)


(***************************************************************************)
(* DOM (renderer/dom/node.rs)                                              *)
(***************************************************************************)
S_html   == <<"h","t","m","l">>
S_head   == <<"h","e","a","d">>
S_style  == <<"s","t","y","l","e">>
S_script == <<"s","c","r","i","p","t">>
S_body   == <<"b","o","d","y">>
S_p      == <<"p">>
S_h1     == <<"h","1">>
S_h2     == <<"h","2">>
S_a      == <<"a">>
S_br     == <<"b","r">>

\* impl FromStr for ElementKind; "Err" is the Err(..) result
ElementKindFromStr(s) ==
    CASE s = S_html   -> "Html"
      [] s = S_head   -> "Head"
      [] s = S_style  -> "Style"
      [] s = S_script -> "Script"
      [] s = S_body   -> "Body"
      [] s = S_p      -> "P"
      [] s = S_h1     -> "H1"
      [] s = S_h2     -> "H2"
      [] s = S_a      -> "A"
      [] OTHER        -> "Err"

\* impl Display for ElementKind
ElementKindToString(k) ==
    CASE k = "Html"   -> S_html
      [] k = "Head"   -> S_head
      [] k = "Style"  -> S_style
      [] k = "Script" -> S_script
      [] k = "Body"   -> S_body
      [] k = "P"      -> S_p
      [] k = "H1"     -> S_h1
      [] k = "H2"     -> S_h2
      [] k = "A"      -> S_a

\* Node::new; a link is a node's index in the arena, 0 for None / an empty Weak
NewNode(kind, element_kind, attributes, text) ==
    [kind |-> kind, element_kind |-> element_kind, attributes |-> attributes,
     text |-> text, parent |-> 0, first_child |-> 0, last_child |-> 0,
     previous_sibling |-> 0, next_sibling |-> 0]

\* Window::new: the arena holds the Document node alone
NewWindow == <<NewNode("Document", "", <<>>, <<>>)>>
Document == 1

\* Element::get_attribute; None when no attribute has the name
GetAttribute(node, name) ==
    LET hits == {i \in 1..Len(node.attributes) : node.attributes[i].name = name}
    IN  IF hits = {} THEN None
        ELSE [type |-> "Some",
              value |-> node.attributes[CHOOSE i \in hits : \A j \in hits : i <= j].value]

\* Element::is_block_element
IsBlockElement(node) == node.element_kind \in {"Body", "H1", "H2", "P"}

(***************************************************************************)
(* HTML tree builder (renderer/html/parser.rs)                             *)
(***************************************************************************)
\* HtmlParser::new; st pairs the parser with the DOM arena it builds
NewParser ==
    [mode |-> "Initial", original_insertion_mode |-> "Initial",
     stack_of_open_elements |-> <<>>]

Last(s) == s[Len(s)]
Front(s) == SubSeq(s, 1, Len(s) - 1)

\* HtmlParser::contain_in_stack
ContainInStack(st, element_kind) ==
    \E i \in 1..Len(st.parser.stack_of_open_elements) :
        LET n == st.dom[st.parser.stack_of_open_elements[i]]
        IN  n.kind = "Element" /\ n.element_kind = element_kind

\* The loop of HtmlParser::pop_until on a stack that holds the kind
RECURSIVE PopLoop(_, _, _)
PopLoop(d, stack, element_kind) ==
    IF stack = <<>> THEN stack
    ELSE IF d[Last(stack)].kind = "Element" /\ d[Last(stack)].element_kind = element_kind
         THEN Front(stack)
         ELSE PopLoop(d, Front(stack), element_kind)

\* HtmlParser::pop_until: its assert! panics when the kind is not on the stack
PopUntilPanics(st, element_kind) == ~ContainInStack(st, element_kind)
PopUntil(st, element_kind) ==
    [st EXCEPT !.parser.stack_of_open_elements = PopLoop(st.dom, @, element_kind)]

\* HtmlParser::pop_current_node: whether it pops
PopsCurrentNode(st, element_kind) ==
    LET stack == st.parser.stack_of_open_elements
    IN  /\ stack # <<>>
        /\ st.dom[Last(stack)].kind = "Element"
        /\ st.dom[Last(stack)].element_kind = element_kind
PopCurrentNode(st, element_kind) ==
    IF PopsCurrentNode(st, element_kind)
    THEN [st EXCEPT !.parser.stack_of_open_elements = Front(@)]
    ELSE st

\* HtmlParser::insert_char
InsertChar(st, c) ==
    LET stack == st.parser.stack_of_open_elements
        current == Last(stack)
        node == Len(st.dom) + 1
        first == st.dom[current].first_child
        linked == IF first # 0
                  THEN [st.dom EXCEPT ![first].next_sibling = node]
                  ELSE [st.dom EXCEPT ![current].first_child = node]
    IN  IF stack = <<>> THEN st
        ELSE IF st.dom[current].kind = "Text"
             THEN [st EXCEPT !.dom[current].text = Append(@, c)]
        ELSE IF c = "\n" \/ c = " " THEN st
        ELSE [st EXCEPT
                !.dom = Append([linked EXCEPT ![current].last_child = node],
                               [NewNode("Text", "", <<>>, <<c>>) EXCEPT !.parent = current]),
                !.parser.stack_of_open_elements = Append(@, node)]

\* The walk of HtmlParser::insert_element to the last sibling
RECURSIVE LastSibling(_, _)
LastSibling(d, n) == IF d[n].next_sibling # 0 THEN LastSibling(d, d[n].next_sibling) ELSE n

\* HtmlParser::insert_element (every caller passes a tag of the supported set,
\* so Element::new succeeds)
InsertElement(st, tag, attributes) ==
    LET stack == st.parser.stack_of_open_elements
        current == IF stack = <<>> THEN Document ELSE Last(stack)
        node == Len(st.dom) + 1
        first == st.dom[current].first_child
        last_sibling == IF first # 0 THEN LastSibling(st.dom, first) ELSE 0
        linked == IF first # 0
                  THEN [st.dom EXCEPT ![last_sibling].next_sibling = node]
                  ELSE [st.dom EXCEPT ![current].first_child = node]
    IN  [st EXCEPT
            !.dom = Append([linked EXCEPT ![current].last_child = node],
                           [NewNode("Element", ElementKindFromStr(tag), attributes, <<>>)
                                EXCEPT !.parent = current,
                                       !.previous_sibling = last_sibling]),
            !.parser.stack_of_open_elements = Append(@, node)]

\* One result of an iteration of construct_tree's `while token.is_some()`:
\* the builder's state, whether the iteration called self.t.next(), whether
\* it returned the window, whether it panicked.
Keep(st)    == [st |-> st, advance |-> FALSE, ret |-> FALSE, panic |-> FALSE]
Advance(st) == [st |-> st, advance |-> TRUE,  ret |-> FALSE, panic |-> FALSE]
Ret(st)     == [st |-> st, advance |-> FALSE, ret |-> TRUE,  panic |-> FALSE]
Abort(st)   == [st |-> st, advance |-> FALSE, ret |-> FALSE, panic |-> TRUE]

SetMode(st, m) == [st EXCEPT !.parser.mode = m]
IsEnd(tok) == tok.type = "Eof" \/ tok.type = "None"
IsSpace(tok) == tok.type = "Char" /\ (tok.c = " " \/ tok.c = "\n")

ModeInitial(st, tok) ==
    IF tok.type = "Char" THEN Advance(st) ELSE Keep(SetMode(st, "BeforeHtml"))

ModeBeforeHtml(st, tok) ==
    IF IsSpace(tok) THEN Advance(st)
    ELSE IF tok.type = "StartTag" /\ tok.tag = S_html
         THEN Advance(SetMode(InsertElement(st, tok.tag, tok.attributes), "BeforeHead"))
    ELSE IF tok.type = "EndTag"
            /\ (tok.tag # S_head \/ tok.tag # S_body \/ tok.tag # S_html \/ tok.tag # S_br)
         THEN Advance(st)
    ELSE IF IsEnd(tok) THEN Ret(st)
    ELSE Keep(SetMode(InsertElement(st, S_html, <<>>), "BeforeHead"))

ModeBeforeHead(st, tok) ==
    IF IsSpace(tok) THEN Advance(st)
    ELSE IF tok.type = "StartTag" /\ tok.tag = S_head
         THEN Advance(SetMode(InsertElement(st, tok.tag, tok.attributes), "InHead"))
    ELSE IF IsEnd(tok) THEN Ret(st)
    ELSE Keep(SetMode(InsertElement(st, S_head, <<>>), "InHead"))

ModeInHead(st, tok) ==
    IF IsSpace(tok) THEN Advance(InsertChar(st, tok.c))
    ELSE IF tok.type = "StartTag" /\ (tok.tag = S_style \/ tok.tag = S_script)
         THEN Advance([SetMode(InsertElement(st, tok.tag, tok.attributes), "Text")
                          EXCEPT !.parser.original_insertion_mode = st.parser.mode])
    ELSE IF tok.type = "StartTag"
            /\ (tok.tag = S_body \/ ElementKindFromStr(tok.tag) # "Err")
         THEN IF PopUntilPanics(st, "Head") THEN Abort(st)
              ELSE Keep(SetMode(PopUntil(st, "Head"), "AfterHead"))
    ELSE IF tok.type = "EndTag" /\ tok.tag = S_head
         THEN IF PopUntilPanics(st, "Head") THEN Abort(st)
              ELSE Advance(PopUntil(SetMode(st, "AfterHead"), "Head"))
    ELSE IF IsEnd(tok) THEN Ret(st)
    ELSE Advance(st)

ModeAfterHead(st, tok) ==
    IF IsSpace(tok) THEN Advance(InsertChar(st, tok.c))
    ELSE IF tok.type = "StartTag" /\ tok.tag = S_body
         THEN Advance(SetMode(InsertElement(st, tok.tag, tok.attributes), "InBody"))
    ELSE IF IsEnd(tok) THEN Ret(st)
    ELSE Keep(SetMode(InsertElement(st, S_body, <<>>), "InBody"))

ModeInBody(st, tok) ==
    IF tok.type = "StartTag"
    THEN IF tok.tag \in {S_p, S_h1, S_h2, S_a}
         THEN Advance(InsertElement(st, tok.tag, tok.attributes))
         ELSE Advance(st)
    ELSE IF tok.type = "EndTag"
    THEN IF tok.tag = S_body
         THEN IF ~ContainInStack(st, "Body") THEN Advance(SetMode(st, "AfterBody"))
              ELSE Advance(PopUntil(SetMode(st, "AfterBody"), "Body"))
         ELSE IF tok.tag = S_html
         THEN IF PopsCurrentNode(st, "Body")
              THEN IF PopsCurrentNode(PopCurrentNode(st, "Body"), "Html")
                   THEN Keep(PopCurrentNode(PopCurrentNode(SetMode(st, "AfterBody"),
                                                           "Body"), "Html"))
                   ELSE Abort(st)
              ELSE Advance(st)
         ELSE IF tok.tag \in {S_p, S_h1, S_h2, S_a}
         THEN IF PopUntilPanics(st, ElementKindFromStr(tok.tag)) THEN Abort(st)
              ELSE Advance(PopUntil(st, ElementKindFromStr(tok.tag)))
         ELSE Advance(st)
    ELSE IF IsEnd(tok) THEN Ret(st)
    ELSE Advance(InsertChar(st, tok.c))

\* The Text mode without the fall-through `self.mode = self.original_insertion_mode`
ModeTextKeepsMode(st, tok) ==
    IF IsEnd(tok) THEN Ret(st)
    ELSE IF tok.type = "EndTag" /\ tok.tag = S_style
         THEN IF PopUntilPanics(st, "Style") THEN Abort(st)
              ELSE Advance(SetMode(PopUntil(st, "Style"), st.parser.original_insertion_mode))
    ELSE IF tok.type = "EndTag" /\ tok.tag = S_script
         THEN IF PopUntilPanics(st, "Script") THEN Abort(st)
              ELSE Advance(SetMode(PopUntil(st, "Script"), st.parser.original_insertion_mode))
    ELSE IF tok.type = "Char" THEN Advance(InsertChar(st, tok.c))
    ELSE Keep(st)

ModeText(st, tok) ==
    IF IsEnd(tok) THEN Ret(st)
    ELSE IF tok.type = "EndTag" /\ tok.tag = S_style
         THEN IF PopUntilPanics(st, "Style") THEN Abort(st)
              ELSE Advance(SetMode(PopUntil(st, "Style"), st.parser.original_insertion_mode))
    ELSE IF tok.type = "EndTag" /\ tok.tag = S_script
         THEN IF PopUntilPanics(st, "Script") THEN Abort(st)
              ELSE Advance(SetMode(PopUntil(st, "Script"), st.parser.original_insertion_mode))
    ELSE IF tok.type = "Char" THEN Advance(InsertChar(st, tok.c))
    ELSE Keep(SetMode(st, st.parser.original_insertion_mode))

ModeAfterBody(st, tok) ==
    IF tok.type = "Char" THEN Advance(st)
    ELSE IF tok.type = "EndTag" /\ tok.tag = S_html
         THEN Advance(SetMode(st, "AfterAfterBody"))
    ELSE IF IsEnd(tok) THEN Ret(st)
    ELSE Keep(SetMode(st, "InBody"))

ModeAfterAfterBody(st, tok) ==
    IF tok.type = "Char" THEN Advance(st)
    ELSE IF IsEnd(tok) THEN Ret(st)
    ELSE Keep(SetMode(st, "InBody"))

\* One iteration of the `while token.is_some()` loop of
\* HtmlParser::construct_tree: `match self.mode` on the current token.
ConstructTreeIter(st, tok) ==
    CASE st.parser.mode = "Initial"        -> ModeInitial(st, tok)
      [] st.parser.mode = "BeforeHtml"     -> ModeBeforeHtml(st, tok)
      [] st.parser.mode = "BeforeHead"     -> ModeBeforeHead(st, tok)
      [] st.parser.mode = "InHead"         -> ModeInHead(st, tok)
      [] st.parser.mode = "AfterHead"      -> ModeAfterHead(st, tok)
      [] st.parser.mode = "InBody"         -> ModeInBody(st, tok)
      [] st.parser.mode = "Text"           -> ModeText(st, tok)
      [] st.parser.mode = "AfterBody"      -> ModeAfterBody(st, tok)
      [] st.parser.mode = "AfterAfterBody" -> ModeAfterAfterBody(st, tok)


(***************************************************************************)
(* CSS tokenizer (renderer/css/token.rs)                                   *)
(***************************************************************************)
CssTok(type, value) == [type |-> type, value |-> value]

\* A tokenizer function's result: the token (or value), the position after
\* it, and whether it panicked.
CssOk(tok, pos) == [tok |-> tok, pos |-> pos, panic |-> FALSE]
CssPanic(pos) == [tok |-> None, pos |-> pos, panic |-> TRUE]

\* CssTokenizer::consume_string_token, entered with pos at the opening quote
RECURSIVE ConsumeStringToken(_, _, _)
ConsumeStringToken(input, pos, s) ==
    IF pos >= Len(input) THEN CssOk(s, pos)
    ELSE IF pos + 1 >= Len(input) THEN CssPanic(pos + 1)
    ELSE IF input[pos + 2] \in {"\"", "'"} THEN CssOk(s, pos + 1)
    ELSE ConsumeStringToken(input, pos + 1, Append(s, input[pos + 2]))

\* CssTokenizer::consume_numeric_token: the f64 is kept as the integer made
\* of the digits read (mant) over 10^scale, scale counting the digits read
\* after a `.`
RECURSIVE ConsumeNumericToken(_, _, _, _, _)
ConsumeNumericToken(input, pos, mant, scale, floating) ==
    IF pos >= Len(input) THEN CssOk([mant |-> mant, scale |-> scale], pos)
    ELSE IF IsAsciiDigit(input[pos + 1])
         THEN ConsumeNumericToken(input, pos + 1, mant * 10 + DigitValue(input[pos + 1]),
                                  IF floating THEN scale + 1 ELSE scale, floating)
    ELSE IF input[pos + 1] = "."
         THEN ConsumeNumericToken(input, pos + 1, mant, scale, TRUE)
    ELSE CssOk([mant |-> mant, scale |-> scale], pos)

IsIdentChar(c) == IsAsciiAlphanumeric(c) \/ c = "-" \/ c = "_"

\* The loop of CssTokenizer::consume_ident_token: it reads input[pos] after
\* each increment without a bounds check
RECURSIVE ConsumeIdentLoop(_, _, _)
ConsumeIdentLoop(input, pos, s) ==
    IF pos + 1 >= Len(input) THEN CssPanic(pos + 1)
    ELSE IF IsIdentChar(input[pos + 2])
         THEN ConsumeIdentLoop(input, pos + 1, Append(s, input[pos + 2]))
    ELSE CssOk(s, pos + 1)

\* CssTokenizer::consume_ident_token
ConsumeIdentToken(input, pos) == ConsumeIdentLoop(input, pos, <<input[pos + 1]>>)

\* The token of a consume_* call: `self.pos -= 1` in the match arm and
\* `self.pos += 1` after it leave pos where the call left it
CssWrap(type, r) == IF r.panic THEN r ELSE CssOk(CssTok(type, r.tok), r.pos)

\* The `@` arm of CssTokenizer::next: three unchecked look-aheads
CssAtArm(input, pos) ==
    IF pos + 1 >= Len(input) THEN CssPanic(pos)
    ELSE IF ~IsAsciiAlphabetic(input[pos + 2]) THEN CssOk(CssTok("Delim", "@"), pos + 1)
    ELSE IF pos + 2 >= Len(input) THEN CssPanic(pos)
    ELSE IF ~IsAsciiAlphanumeric(input[pos + 3]) THEN CssOk(CssTok("Delim", "@"), pos + 1)
    ELSE IF pos + 3 >= Len(input) THEN CssPanic(pos)
    ELSE IF ~IsAsciiAlphanumeric(input[pos + 4]) THEN CssOk(CssTok("Delim", "@"), pos + 1)
    ELSE CssWrap("AtKeyword", ConsumeIdentToken(input, pos + 1))

\* CssTokenizer::next from position pos: the token (None at the end of the
\* input) and the position after it
RECURSIVE CssNext(_, _)
CssNext(input, pos) ==
    IF pos >= Len(input) THEN CssOk(None, pos)
    ELSE LET c == input[pos + 1]
         IN  CASE c = "(" -> CssOk(CssTok("OpenParenthesis", <<>>), pos + 1)
               [] c = ")" -> CssOk(CssTok("CloseParenthesis", <<>>), pos + 1)
               [] c = "," -> CssOk(CssTok("Delim", ","), pos + 1)
               [] c = "." -> CssOk(CssTok("Delim", "."), pos + 1)
               [] c = ":" -> CssOk(CssTok("Colon", <<>>), pos + 1)
               [] c = ";" -> CssOk(CssTok("SemiColon", <<>>), pos + 1)
               [] c = "{" -> CssOk(CssTok("OpenCurly", <<>>), pos + 1)
               [] c = "}" -> CssOk(CssTok("CloseCurly", <<>>), pos + 1)
               [] c = " " \/ c = "\n" -> CssNext(input, pos + 1)
               [] c = "\"" \/ c = "'" ->
                    LET r == ConsumeStringToken(input, pos, <<>>)
                    IN  IF r.panic THEN r
                        ELSE CssOk(CssTok("StringToken", r.tok), r.pos + 1)
               [] IsAsciiDigit(c) ->
                    CssWrap("Number", ConsumeNumericToken(input, pos, 0, 0, FALSE))
               [] c = "#" -> CssWrap("HashToken", ConsumeIdentToken(input, pos))
               [] c = "-" -> CssWrap("Ident", ConsumeIdentToken(input, pos))
               [] c = "@" -> CssAtArm(input, pos)
               [] IsAsciiAlphabetic(c) \/ c = "_" ->
                    CssWrap("Ident", ConsumeIdentToken(input, pos))
               [] OTHER -> CssPanic(pos)

(***************************************************************************)
(* CSS parser (renderer/css/cssom.rs).  The parser reads its tokens through *)
(* a Peekable<CssTokenizer>: peek() is the token CssNext gives at the      *)
(* position, next() also moves the position past it.  A parser function's  *)
(* result is its status ("ok", "panic", or "hang" for a loop that never    *)
(* ends), the position it leaves, and its value.                           *)
(***************************************************************************)
POk(pos, value) == [status |-> "ok", pos |-> pos, value |-> value]
PFail(status, pos) == [status |-> status, pos |-> pos, value |-> None]

TypeSelector(name) == [type |-> "TypeSelector", name |-> name]
ClassSelector(name) == [type |-> "ClassSelector", name |-> name]
IdSelector(name) == [type |-> "IdSelector", name |-> name]
UnknownSelector == [type |-> "UnknownSelector", name |-> <<>>]

\* QualifiedRule::new
NewQualifiedRule == [selector |-> TypeSelector(<<>>), declarations |-> <<>>]

\* CssParser::consume_ident
ConsumeIdent(input, pos) ==
    LET Got(t) == IF t.panic \/ t.tok.type # "Ident" THEN PFail("panic", pos)
                  ELSE POk(t.pos, t.tok.value)
    IN  Got(CssNext(input, pos))

\* CssParser::consume_declaration, called with an Ident as the next token;
\* value None is the function's None
ConsumeDeclaration(input, pos) ==
    LET Value(prop, colon, val) ==
            IF val.panic \/ val.tok.type = "None" THEN PFail("panic", colon.pos)
            ELSE POk(val.pos, [property |-> prop.value, value |-> val.tok])
        Colon(prop, colon) ==
            IF colon.panic THEN PFail("panic", prop.pos)
            ELSE IF colon.tok.type # "Colon" THEN POk(colon.pos, None)
            ELSE Value(prop, colon, CssNext(input, colon.pos))
        Property(prop) ==
            IF prop.status # "ok" THEN prop
            ELSE Colon(prop, CssNext(input, prop.pos))
    IN  Property(ConsumeIdent(input, pos))

\* CssParser::consume_list_of_declarations
RECURSIVE ConsumeListOfDeclarations(_, _, _)
ConsumeListOfDeclarations(input, pos, declarations) ==
    LET Declared(d) ==
            IF d.status # "ok" THEN d
            ELSE ConsumeListOfDeclarations(input, d.pos,
                    IF d.value = None THEN declarations
                    ELSE Append(declarations, d.value))
        Peeked(t) ==
            IF t.panic THEN PFail("panic", pos)
            ELSE IF t.tok.type = "None" THEN POk(pos, declarations)
            ELSE IF t.tok.type = "CloseCurly" THEN POk(t.pos, declarations)
            ELSE IF t.tok.type = "Ident" THEN Declared(ConsumeDeclaration(input, pos))
            ELSE Declared(POk(t.pos, None))
    IN  Peeked(CssNext(input, pos))

\* `while self.t.peek() != Some(&CssToken::OpenCurly) { self.t.next(); }`:
\* at the end of the input peek() stays None and the loop never ends
RECURSIVE SkipToOpenCurly(_, _)
SkipToOpenCurly(input, pos) ==
    LET Peeked(t) ==
            IF t.panic THEN PFail("panic", pos)
            ELSE IF t.tok.type = "None" THEN PFail("hang", pos)
            ELSE IF t.tok.type = "OpenCurly" THEN POk(pos, None)
            ELSE SkipToOpenCurly(input, t.pos)
    IN  Peeked(CssNext(input, pos))

\* CssParser::consume_selector, called with a token to read
ConsumeSelector(input, pos) ==
    LET Selected(r, selector) == IF r.status # "ok" THEN r ELSE POk(r.pos, selector)
        Class(i) == Selected(i, ClassSelector(i.value))
        Pseudo(t, peek) ==
            IF peek.panic THEN PFail("panic", t.pos)
            ELSE IF peek.tok.type = "Colon"
                 THEN Selected(SkipToOpenCurly(input, t.pos), TypeSelector(t.tok.value))
            ELSE POk(t.pos, TypeSelector(t.tok.value))
        Skipped(t, peek) ==
            IF peek.panic THEN PFail("panic", t.pos) ELSE POk(peek.pos, UnknownSelector)
        Got(t) ==
            IF t.panic \/ t.tok.type = "None" THEN PFail("panic", pos)
            ELSE IF t.tok.type = "HashToken" THEN POk(t.pos, IdSelector(Tail(t.tok.value)))
            ELSE IF t.tok.type = "Delim"
                 THEN IF t.tok.value = "." THEN Class(ConsumeIdent(input, t.pos))
                      ELSE PFail("panic", t.pos)
            ELSE IF t.tok.type = "AtKeyword"
                 THEN Selected(SkipToOpenCurly(input, t.pos), UnknownSelector)
            ELSE IF t.tok.type = "Ident" THEN Pseudo(t, CssNext(input, t.pos))
            ELSE Skipped(t, CssNext(input, t.pos))
    IN  Got(CssNext(input, pos))

\* CssParser::consume_qualified_rule; value None is the function's None
RECURSIVE ConsumeQualifiedRule(_, _, _)
ConsumeQualifiedRule(input, pos, rule) ==
    LET Block(d) ==
            IF d.status # "ok" THEN d
            ELSE POk(d.pos, [rule EXCEPT !.declarations = d.value])
        Selected(sel) ==
            IF sel.status # "ok" THEN sel
            ELSE ConsumeQualifiedRule(input, sel.pos, [rule EXCEPT !.selector = sel.value])
        Peeked(t) ==
            IF t.panic THEN PFail("panic", pos)
            ELSE IF t.tok.type = "None" THEN POk(pos, None)
            ELSE IF t.tok.type = "OpenCurly"
                 THEN Block(ConsumeListOfDeclarations(input, t.pos, <<>>))
            ELSE Selected(ConsumeSelector(input, pos))
    IN  Peeked(CssNext(input, pos))

\* One iteration of the loop of CssParser::consume_list_of_rules on the
\* parser c = [input, pos, rules, status]: status becomes "done" when the
\* function returns its rules
ConsumeListOfRulesIter(c) ==
    LET Rule(at_rule, r) ==
            IF r.status # "ok" THEN [c EXCEPT !.status = r.status, !.pos = r.pos]
            ELSE IF at_rule THEN [c EXCEPT !.pos = r.pos]
            ELSE IF r.value = None THEN [c EXCEPT !.status = "done", !.pos = r.pos]
            ELSE [c EXCEPT !.pos = r.pos, !.rules = Append(@, r.value)]
        Peeked(t) ==
            IF t.panic THEN [c EXCEPT !.status = "panic"]
            ELSE IF t.tok.type = "None" THEN [c EXCEPT !.status = "done"]
            ELSE Rule(t.tok.type = "AtKeyword",
                      ConsumeQualifiedRule(c.input, c.pos, NewQualifiedRule))
    IN  Peeked(CssNext(c.input, c.pos))

\* CssParser::new over CssTokenizer::new(style)
NewCssParser(style) == [input |-> style, pos |-> 0, rules |-> <<>>, status |-> "run"]

\* CssParser::parse_stylesheet: consume_list_of_rules run to its end
RECURSIVE ParseStylesheet(_)
ParseStylesheet(c) ==
    IF c.status # "run" THEN c ELSE ParseStylesheet(ConsumeListOfRulesIter(c))

(***************************************************************************)
(* DOM API (renderer/dom/api.rs)                                           *)
(***************************************************************************)
\* get_target_element_node: the first element of the kind in the depth-first
\* walk from node n (children before siblings), 0 for None
RECURSIVE GetTargetElementNode(_, _, _)
GetTargetElementNode(d, n, element_kind) ==
    LET Sibling(result1) ==
            IF result1 # 0 THEN result1
            ELSE GetTargetElementNode(d, d[n].next_sibling, element_kind)
    IN  IF n = 0 THEN 0
        ELSE IF d[n].kind = "Element" /\ d[n].element_kind = element_kind THEN n
        ELSE Sibling(GetTargetElementNode(d, d[n].first_child, element_kind))

\* The tail of get_style_content / get_js_content: the text of the first
\* child of the element found, "" when there is none
FirstChildText(d, n) ==
    IF n = 0 THEN <<>>
    ELSE IF d[n].first_child = 0 THEN <<>>
    ELSE IF d[d[n].first_child].kind = "Text" THEN d[d[n].first_child].text
    ELSE <<>>

\* get_style_content
GetStyleContent(d) == FirstChildText(d, GetTargetElementNode(d, Document, "Style"))

\* get_js_content
GetJsContent(d) == FirstChildText(d, GetTargetElementNode(d, Document, "Script"))

(***************************************************************************)
(* Computed style (renderer/layout/computed_style.rs)                      *)
(***************************************************************************)
S_background_color == <<"b","a","c","k","g","r","o","u","n","d","-","c","o","l","o","r">>
S_color   == <<"c","o","l","o","r">>
S_display == <<"d","i","s","p","l","a","y">>
S_block   == <<"b","l","o","c","k">>
S_inline  == <<"i","n","l","i","n","e">>
S_none    == <<"n","o","n","e">>
S_class   == <<"c","l","a","s","s">>
S_id      == <<"i","d">>
S_href    == <<"h","r","e","f">>

\* The names and codes of Color::from_name and Color::from_code
ColorTable ==
    <<[name |-> <<"b","l","a","c","k">>, code |-> <<"#","0","0","0","0","0","0">>],
      [name |-> <<"s","i","l","v","e","r">>, code |-> <<"#","c","0","c","0","c","0">>],
      [name |-> <<"g","r","a","y">>, code |-> <<"#","8","0","8","0","8","0">>],
      [name |-> <<"w","h","i","t","e">>, code |-> <<"#","f","f","f","f","f","f">>],
      [name |-> <<"m","a","r","o","o","n">>, code |-> <<"#","8","0","0","0","0","0">>],
      [name |-> <<"r","e","d">>, code |-> <<"#","f","f","0","0","0","0">>],
      [name |-> <<"p","u","r","p","l","e">>, code |-> <<"#","8","0","0","0","8","0">>],
      [name |-> <<"f","u","c","h","s","i","a">>, code |-> <<"#","f","f","0","0","f","f">>],
      [name |-> <<"g","r","e","e","n">>, code |-> <<"#","0","0","8","0","0","0">>],
      [name |-> <<"l","i","m","e">>, code |-> <<"#","0","0","f","f","0","0">>],
      [name |-> <<"o","l","i","v","e">>, code |-> <<"#","8","0","8","0","0","0">>],
      [name |-> <<"y","e","l","l","o","w">>, code |-> <<"#","f","f","f","f","0","0">>],
      [name |-> <<"n","a","v","y">>, code |-> <<"#","0","0","0","0","8","0">>],
      [name |-> <<"b","l","u","e">>, code |-> <<"#","0","0","0","0","f","f">>],
      [name |-> <<"t","e","a","l">>, code |-> <<"#","0","0","8","0","8","0">>],
      [name |-> <<"a","q","u","a">>, code |-> <<"#","0","0","f","f","f","f">>],
      [name |-> <<"o","r","a","n","g","e">>, code |-> <<"#","f","f","a","5","0","0">>],
      [name |-> <<"l","i","g","h","t","g","r","a","y">>, code |-> <<"#","d","3","d","3","d","3">>]>>

\* Color::from_name; None is Err(..)
ColorFromName(name) ==
    LET hits == {i \in 1..Len(ColorTable) : ColorTable[i].name = name}
    IN  IF hits = {} THEN None ELSE ColorTable[CHOOSE i \in hits : TRUE]

\* Color::from_code; None is Err(..)
ColorFromCode(code) ==
    LET hits == {i \in 1..Len(ColorTable) : ColorTable[i].code = code}
    IN  IF code = <<>> \/ Head(code) # "#" \/ Len(code) # 7 \/ hits = {} THEN None
        ELSE ColorTable[CHOOSE i \in hits : TRUE]

\* Color::white, Color::black
White == [name |-> <<"w","h","i","t","e">>, code |-> <<"#","f","f","f","f","f","f">>]
Black == [name |-> <<"b","l","a","c","k">>, code |-> <<"#","0","0","0","0","0","0">>]

\* Option::None of the enum-valued properties of a ComputedStyle
Unset == "Unset"

\* ComputedStyle::new (height and width, which nothing reads, are left out)
NewComputedStyle ==
    [background_color |-> None, color |-> None, display |-> Unset,
     font_size |-> Unset, text_decoration |-> Unset]

\* DisplayType::default
DisplayTypeDefault(node) ==
    IF node.kind = "Element" /\ ~IsBlockElement(node) THEN "Inline"
    ELSE IF node.kind = "Text" THEN "Inline"
    ELSE "Block"

\* DisplayType::from_str, with cascading_style's Err(_) => DisplayNone
DisplayTypeFromStr(s) ==
    CASE s = S_block  -> "Block"
      [] s = S_inline -> "Inline"
      [] OTHER        -> "DisplayNone"

\* FontSize::default
FontSizeDefault(node) ==
    IF node.kind = "Element" /\ node.element_kind = "H1" THEN "XXLarge"
    ELSE IF node.kind = "Element" /\ node.element_kind = "H2" THEN "XLarge"
    ELSE "Medium"

\* TextDecoration::default
TextDecorationDefault(node) ==
    IF node.kind = "Element" /\ node.element_kind = "A" THEN "Underline" ELSE "None"

\* A defaulting that took every absent property from its initial value and
\* nothing from the parent
DefaultingWithoutParent(style, node, parent_style) ==
    LET Default(own, unset, initial) == IF own = unset THEN initial ELSE own
    IN  [background_color |-> Default(style.background_color, None, White),
         color |-> Default(style.color, None, Black),
         display |-> Default(style.display, Unset, DisplayTypeDefault(node)),
         font_size |-> Default(style.font_size, Unset, FontSizeDefault(node)),
         text_decoration |-> Default(style.text_decoration, Unset, TextDecorationDefault(node))]

\* ComputedStyle::defaulting; parent_style is None or the parent's style
Defaulting(style, node, parent_style) ==
    LET Inherit(own, unset, parent, initial) ==
            IF own = unset /\ parent_style # None /\ parent # initial THEN parent ELSE own
        Default(own, unset, initial) == IF own = unset THEN initial ELSE own
        p == IF parent_style = None THEN NewComputedStyle ELSE parent_style
    IN  [background_color |->
            Default(Inherit(style.background_color, None, p.background_color, White), None, White),
         color |-> Default(Inherit(style.color, None, p.color, Black), None, Black),
         display |-> Default(style.display, Unset, DisplayTypeDefault(node)),
         font_size |->
            Default(Inherit(style.font_size, Unset, p.font_size, "Medium"), Unset,
                    FontSizeDefault(node)),
         text_decoration |->
            Default(Inherit(style.text_decoration, Unset, p.text_decoration, "None"), Unset,
                    TextDecorationDefault(node))]

(***************************************************************************)
(* Layout objects (renderer/layout/layout_object.rs) and the layout view   *)
(* (renderer/layout/layout_view.rs).  A layout object is named by the DOM  *)
(* node it was created for; a layout tree is [root, objs] with root 0 and  *)
(* objs empty when there is no object.                                     *)
(***************************************************************************)
WINDOW_WIDTH == 600
WINDOW_PADDING == 5
CONTENT_AREA_WIDTH == WINDOW_WIDTH - WINDOW_PADDING * 2
CHAR_WIDTH == 8
CHAR_HEIGHT == 16
CHAR_HEIGHT_WITH_PADDING == CHAR_HEIGHT + 4

LayoutPoint(x, y) == [x |-> x, y |-> y]
LayoutSize(width, height) == [width |-> width, height |-> height]

\* LayoutObject::is_node_selected
IsNodeSelected(node, selector) ==
    /\ node.kind = "Element"
    /\ CASE selector.type = "TypeSelector" ->
                ElementKindToString(node.element_kind) = selector.name
         [] selector.type = "ClassSelector" ->
                \E i \in 1..Len(node.attributes) :
                    node.attributes[i].name = S_class /\ node.attributes[i].value = selector.name
         [] selector.type = "IdSelector" ->
                \E i \in 1..Len(node.attributes) :
                    node.attributes[i].name = S_id /\ node.attributes[i].value = selector.name
         [] OTHER -> FALSE

\* One declaration of LayoutObject::cascading_style
CascadeDeclaration(style, declaration) ==
    LET Or(color, default) == IF color = None THEN default ELSE color
        value == declaration.value
    IN  CASE declaration.property = S_background_color /\ value.type = "Ident" ->
                [style EXCEPT !.background_color = Or(ColorFromName(value.value), White)]
          [] declaration.property = S_background_color /\ value.type = "HashToken" ->
                [style EXCEPT !.background_color = Or(ColorFromCode(value.value), White)]
          [] declaration.property = S_color /\ value.type = "Ident" ->
                [style EXCEPT !.color = Or(ColorFromName(value.value), Black)]
          [] declaration.property = S_color /\ value.type = "HashToken" ->
                [style EXCEPT !.color = Or(ColorFromCode(value.value), Black)]
          [] declaration.property = S_display /\ value.type = "Ident" ->
                [style EXCEPT !.display = DisplayTypeFromStr(value.value)]
          [] OTHER -> style

\* LayoutObject::cascading_style
RECURSIVE CascadingStyle(_, _)
CascadingStyle(style, declarations) ==
    IF declarations = <<>> THEN style
    ELSE CascadingStyle(CascadeDeclaration(style, Head(declarations)), Tail(declarations))

\* A cascade in which the rules are applied last to first, so that the
\* earliest matching rule has the last word
RECURSIVE CascadeRulesBackwards(_, _, _)
CascadeRulesBackwards(node, style, rules) ==
    IF rules = <<>> THEN style
    ELSE LET Applied(rest) ==
                 IF IsNodeSelected(node, Head(rules).selector)
                 THEN CascadingStyle(rest, Head(rules).declarations)
                 ELSE rest
         IN  Applied(CascadeRulesBackwards(node, style, Tail(rules)))

\* The `for rule in &cssom.rules` loop of create_layout_object
RECURSIVE CascadeRules(_, _, _)
CascadeRules(node, style, rules) ==
    IF rules = <<>> THEN style
    ELSE CascadeRules(node,
                      IF IsNodeSelected(node, Head(rules).selector)
                      THEN CascadingStyle(style, Head(rules).declarations)
                      ELSE style,
                      Tail(rules))

\* LayoutObject::update_kind (the builder never reaches the Document node)
UpdateKind(node, style) == IF node.kind = "Text" THEN "Text" ELSE style.display

\* create_layout_object for DOM node n: None when the resolved display is none
CreateLayoutObject(d, n, parent_obj, cssom) ==
    LET Styled(style) ==
            IF style.display = "DisplayNone" THEN None
            ELSE [kind |-> UpdateKind(d[n], style), node |-> n,
                  first_child |-> 0, next_sibling |-> 0,
                  parent |-> IF parent_obj = None THEN 0 ELSE parent_obj.node,
                  style |-> style, point |-> LayoutPoint(0, 0), size |-> LayoutSize(0, 0)]
    IN  IF n = 0 THEN None
        ELSE Styled(Defaulting(CascadeRules(d[n], NewComputedStyle, cssom), d[n],
                               IF parent_obj = None THEN None ELSE parent_obj.style))

NoLayout == [root |-> 0, objs |-> <<>>]

\* build_layout_tree
RECURSIVE BuildLayoutTree(_, _, _, _)
RECURSIVE RebuildFrom(_, _, _, _)
BuildLayoutTree(d, n, parent_obj, cssom) ==
    LET Linked(obj, children, siblings) ==
            [root |-> obj.node,
             objs |-> (obj.node :> [obj EXCEPT !.first_child = children.root,
                                               !.next_sibling = siblings.root])
                      @@ children.objs @@ siblings.objs]
        Retry(original, tree, parent) ==
            IF tree.root = 0 /\ original # 0
            THEN RebuildFrom(d, d[original].next_sibling, parent, cssom)
            ELSE tree
        Created(obj) ==
            IF obj = None THEN BuildLayoutTree(d, d[n].next_sibling, parent_obj, cssom)
            ELSE Linked(obj,
                        Retry(d[n].first_child,
                              BuildLayoutTree(d, d[n].first_child, obj, cssom), obj),
                        Retry(d[n].next_sibling,
                              BuildLayoutTree(d, d[n].next_sibling, None, cssom), None))
    IN  IF n = 0 THEN NoLayout ELSE Created(CreateLayoutObject(d, n, parent_obj, cssom))

\* The loops of build_layout_tree that look for a later sibling when a subtree
\* came back empty
RebuildFrom(d, n, parent_obj, cssom) ==
    LET Built(tree) ==
            IF tree.root = 0 /\ n # 0
            THEN RebuildFrom(d, d[n].next_sibling, parent_obj, cssom)
            ELSE tree
    IN  Built(BuildLayoutTree(d, n, parent_obj, cssom))

\* The font-size ratio of compute_size and paint
Ratio(font_size) ==
    CASE font_size = "Medium" -> 1 [] font_size = "XLarge" -> 2 [] font_size = "XXLarge" -> 3

\* compute_size, Block arm: the height summed over the children from c on
RECURSIVE BlockHeight(_, _, _)
BlockHeight(objs, c, previous_child_kind) ==
    IF c = 0 THEN 0
    ELSE (IF previous_child_kind = "Block" \/ objs[c].kind = "Block"
          THEN objs[c].size.height ELSE 0)
         + BlockHeight(objs, objs[c].next_sibling, objs[c].kind)

\* compute_size, Inline arm: width and height summed over the children
RECURSIVE InlineSize(_, _)
InlineSize(objs, c) ==
    IF c = 0 THEN LayoutSize(0, 0)
    ELSE LET Plus(rest) == LayoutSize(objs[c].size.width + rest.width,
                                      objs[c].size.height + rest.height)
         IN  Plus(InlineSize(objs, objs[c].next_sibling))

\* Characters outside ASCII: a char of a String is one element of the
\* sequence, named by its code point
C_e_acute == "U+00E9"
C_hiragana_a == "U+3042"
C_grinning_face == "U+1F600"

\* char::len_utf8: the number of bytes of the character in a String
LenUtf8(c) ==
    CASE c = C_e_acute -> 2
      [] c = C_hiragana_a -> 3
      [] c = C_grinning_face -> 4
      [] OTHER -> 1

\* String::len: the length of the string in bytes
StringLen(s) ==
    LET Of(k) == Cardinality({i \in 1..Len(s) : LenUtf8(s[i]) = k})
    IN  Of(1) + 2 * Of(2) + 3 * Of(3) + 4 * Of(4)

\* compute_size, Text arm (t.len() counts bytes)
TextSize(text, font_size) ==
    LET width == CHAR_WIDTH * Ratio(font_size) * StringLen(text)
        line_num == IF width % CONTENT_AREA_WIDTH = 0
                    THEN width \div CONTENT_AREA_WIDTH
                    ELSE width \div CONTENT_AREA_WIDTH + 1
    IN  IF width > CONTENT_AREA_WIDTH
        THEN LayoutSize(CONTENT_AREA_WIDTH,
                        CHAR_HEIGHT_WITH_PADDING * Ratio(font_size) * line_num)
        ELSE LayoutSize(width, CHAR_HEIGHT_WITH_PADDING * Ratio(font_size))

\* LayoutObject::compute_size of object n
ComputeSize(d, objs, n, parent_size) ==
    CASE objs[n].kind = "Block" ->
            LayoutSize(parent_size.width, BlockHeight(objs, objs[n].first_child, "Block"))
      [] objs[n].kind = "Inline" -> InlineSize(objs, objs[n].first_child)
      [] objs[n].kind = "Text" -> TextSize(d[n].text, objs[n].style.font_size)

\* LayoutView::calculate_node_size
RECURSIVE CalculateNodeSize(_, _, _, _)
CalculateNodeSize(d, objs, n, parent_size) ==
    LET Sized(o) == [o EXCEPT ![n].size = ComputeSize(d, o, n, parent_size)]
        Children(o) == CalculateNodeSize(d, o, o[n].first_child, o[n].size)
        Siblings(o) == CalculateNodeSize(d, o, o[n].next_sibling, parent_size)
    IN  IF n = 0 THEN objs
        ELSE Sized(Siblings(Children(IF objs[n].kind = "Block" THEN Sized(objs) ELSE objs)))

\* compute_position stepping back from the previous sibling instead of past it
ComputePositionBackwards(kind, parent_point, previous_kind, previous_point, previous_size) ==
    LET has_previous == previous_size # None /\ previous_point # None
    IN  IF kind = "Block" \/ previous_kind = "Block"
        THEN LayoutPoint(parent_point.x,
                         IF has_previous THEN previous_point.y - previous_size.height
                         ELSE parent_point.y)
        ELSE IF kind = "Inline" /\ previous_kind = "Inline" /\ has_previous
        THEN LayoutPoint(previous_point.x - previous_size.width, previous_point.y)
        ELSE parent_point

\* LayoutObject::compute_position
ComputePosition(kind, parent_point, previous_kind, previous_point, previous_size) ==
    LET previous_sibling_kind == previous_kind
        previous_sibling_point == previous_point
        previous_sibling_size == previous_size
        has_previous == previous_sibling_size # None /\ previous_sibling_point # None
    IN  IF kind = "Block" \/ previous_sibling_kind = "Block"
        THEN LayoutPoint(parent_point.x,
                         IF has_previous
                         THEN previous_sibling_point.y + previous_sibling_size.height
                         ELSE parent_point.y)
        ELSE IF kind = "Inline" /\ previous_sibling_kind = "Inline" /\ has_previous
        THEN LayoutPoint(previous_sibling_point.x + previous_sibling_size.width,
                         previous_sibling_point.y)
        ELSE parent_point

\* LayoutView::calculate_node_position
RECURSIVE CalculateNodePosition(_, _, _, _, _, _)
CalculateNodePosition(objs, n, parent_point, previous_kind, previous_point, previous_size) ==
    LET Placed(o) ==
            [o EXCEPT ![n].point = ComputePosition(o[n].kind, parent_point,
                                       previous_kind, previous_point, previous_size)]
        Children(o) == CalculateNodePosition(o, o[n].first_child, o[n].point, "Block", None, None)
        Siblings(o) == CalculateNodePosition(o, o[n].next_sibling, parent_point,
                                             o[n].kind, o[n].point, o[n].size)
    IN  IF n = 0 THEN objs ELSE Siblings(Children(Placed(objs)))

\* LayoutView::update_layout
UpdateLayout(d, tree) ==
    [tree EXCEPT !.objs =
        CalculateNodePosition(
            CalculateNodeSize(d, tree.objs, tree.root, LayoutSize(CONTENT_AREA_WIDTH, 0)),
            tree.root, LayoutPoint(0, 0), "Block", None, None)]

\* LayoutView::new
NewLayoutView(d, cssom) ==
    UpdateLayout(d, BuildLayoutTree(d, GetTargetElementNode(d, Document, "Body"), None, cssom))


\* paint's `t.replace("\n", " ").split(' ').filter(non-empty).join(" ")`:
\* runs of spaces and newlines become one space, those at the ends vanish
\* (one character of it on s = [out, pending]: the text so far and whether a
\* space is owed before the next word)
PlainTextChar(s, c) ==
    IF c \in {" ", "\n"} THEN [s EXCEPT !.pending = s.out # <<>>]
    ELSE [out |-> (IF s.pending THEN Append(s.out, " ") ELSE s.out) \o <<c>>,
          pending |-> FALSE]

\* The characters lo..hi of t in turn: the first half of them, then the rest
\* (the text so far is never longer than t)
RECURSIVE PlainTextRange(_, _, _, _)
PlainTextRange(s, t, lo, hi) ==
    LET Rest(half, mid) ==
            IF Len(half.out) > Len(t) THEN half ELSE PlainTextRange(half, t, mid + 1, hi)
        Halves(mid) == Rest(PlainTextRange(s, t, lo, mid), mid)
    IN  IF hi < lo THEN s
        ELSE IF lo = hi THEN PlainTextChar(s, t[lo])
        ELSE Halves((lo + hi) \div 2)

PlainText(t, out, pending) ==
    PlainTextRange([out |-> out, pending |-> pending], t, 1, Len(t)).out

\* str::trim
RECURSIVE Trim(_)
Trim(s) ==
    IF s = <<>> THEN s
    ELSE IF Head(s) \in {" ", "\n"} THEN Trim(Tail(s))
    ELSE IF Last(s) \in {" ", "\n"} THEN Trim(Front(s))
    ELSE s

\* find_index_for_line_break
FindIndexForLineBreak(line, max_index) ==
    LET spaces == {i \in 0..(max_index - 1) : line[i + 1] = " "}
    IN  IF spaces = {} THEN max_index ELSE CHOOSE i \in spaces : \A j \in spaces : j <= i

\* split_text (the lines long enough to be split are ASCII, where the byte
\* index of split_at is the character index)
RECURSIVE SplitText(_, _)
SplitText(line, char_width) ==
    LET Split(at) ==
            <<SubSeq(line, 1, at)>>
            \o SplitText(Trim(SubSeq(line, at + 1, Len(line))), char_width)
    IN  IF StringLen(line) * char_width > WINDOW_WIDTH + WINDOW_PADDING
        THEN Split(FindIndexForLineBreak(line, (WINDOW_WIDTH + WINDOW_PADDING) \div char_width))
        ELSE <<line>>

\* LayoutObject::paint
Paint(d, obj) ==
    LET Lines(lines) ==
            [i \in 1..Len(lines) |->
                [type |-> "Text", text |-> lines[i], style |-> obj.style,
                 layout_point |-> LayoutPoint(obj.point.x,
                                      obj.point.y + CHAR_HEIGHT_WITH_PADDING * (i - 1))]]
    IN  CASE obj.style.display = "DisplayNone" -> <<>>
          [] obj.kind = "Block" /\ d[obj.node].kind = "Element" ->
                <<[type |-> "Rect", style |-> obj.style, layout_point |-> obj.point,
                   layout_size |-> obj.size]>>
          [] obj.kind = "Text" /\ d[obj.node].kind = "Text" ->
                Lines(SplitText(PlainText(d[obj.node].text, <<>>, FALSE),
                                CHAR_WIDTH * Ratio(obj.style.font_size)))
          [] OTHER -> <<>>

\* LayoutView::paint_node
RECURSIVE PaintNode(_, _, _)
PaintNode(d, objs, n) ==
    IF n = 0 THEN <<>>
    ELSE Paint(d, objs[n]) \o PaintNode(d, objs, objs[n].first_child)
         \o PaintNode(d, objs, objs[n].next_sibling)

\* find_node_by_position_internal with the borders of the rectangles left out
RECURSIVE FindNodeStrictlyInside(_, _, _)
FindNodeStrictlyInside(objs, n, position) ==
    LET o == objs[n]
        Self == IF /\ o.point.x < position[1]
                   /\ position[1] < o.point.x + o.size.width
                   /\ o.point.y < position[2]
                   /\ position[2] < o.point.y + o.size.height
                THEN n ELSE 0
        Sibling(result2) == IF result2 # 0 THEN result2 ELSE Self
        Child(result1) ==
            IF result1 # 0 THEN result1
            ELSE Sibling(FindNodeStrictlyInside(objs, o.next_sibling, position))
    IN  IF n = 0 THEN 0
        ELSE Child(FindNodeStrictlyInside(objs, o.first_child, position))

\* LayoutView::find_node_by_position_internal, 0 for None
RECURSIVE FindNodeByPositionInternal(_, _, _)
FindNodeByPositionInternal(objs, n, position) ==
    LET o == objs[n]
        Self == IF /\ o.point.x <= position[1]
                   /\ position[1] <= o.point.x + o.size.width
                   /\ o.point.y <= position[2]
                   /\ position[2] <= o.point.y + o.size.height
                THEN n ELSE 0
        Sibling(result2) == IF result2 # 0 THEN result2 ELSE Self
        Child(result1) ==
            IF result1 # 0 THEN result1
            ELSE Sibling(FindNodeByPositionInternal(objs, o.next_sibling, position))
    IN  IF n = 0 THEN 0
        ELSE Child(FindNodeByPositionInternal(objs, o.first_child, position))

(***************************************************************************)
(* JavaScript lexer (renderer/js/token.rs)                                 *)
(* The lexer is its input and the 0-based position pos; a call of next()   *)
(* yields the token (None at the end of the input), the new position and   *)
(* whether the call panicked.  The numbers of the inputs considered have   *)
(* few digits, so num * 10 + digit stays far below 2^64.                   *)
(***************************************************************************)
S_var      == <<"v","a","r">>
S_function == <<"f","u","n","c","t","i","o","n">>
S_return   == <<"r","e","t","u","r","n">>
RESERVED_WORDS == <<S_var, S_function, S_return>>

JsPunctuator(c)    == [type |-> "Punctuator", c |-> c]
JsNumber(num)      == [type |-> "Number", num |-> num]
JsIdentifier(str)  == [type |-> "Identifier", str |-> str]
JsKeyword(str)     == [type |-> "Keyword", str |-> str]
JsStringLiteral(s) == [type |-> "StringLiteral", str |-> s]

JsTok(tok, pos) == [tok |-> tok, pos |-> pos, panic |-> FALSE]
JsLexPanic(pos) == [tok |-> None, pos |-> pos, panic |-> TRUE]

\* JsLexer::contains from the i-th character of the keyword on: "true",
\* "false", or "panic" when input[pos + i] lies beyond the input
RECURSIVE LexerContains(_, _, _, _)
LexerContains(input, pos, keyword, i) ==
    IF i >= Len(keyword) THEN "true"
    ELSE IF pos + i >= Len(input) THEN "panic"
    ELSE IF keyword[i + 1] # input[pos + i + 1] THEN "false"
    ELSE LexerContains(input, pos, keyword, i + 1)

\* JsLexer::check_reserved_word from the w-th reserved word on
RECURSIVE CheckReservedWord(_, _, _)
CheckReservedWord(input, pos, w) ==
    LET Found(r) ==
            IF r = "panic" THEN [word |-> <<>>, found |-> FALSE, panic |-> TRUE]
            ELSE IF r = "true"
                 THEN [word |-> RESERVED_WORDS[w], found |-> TRUE, panic |-> FALSE]
            ELSE CheckReservedWord(input, pos, w + 1)
    IN  IF w > Len(RESERVED_WORDS) THEN [word |-> <<>>, found |-> FALSE, panic |-> FALSE]
        ELSE Found(LexerContains(input, pos, RESERVED_WORDS[w], 0))

\* JsLexer::consume_identifier
RECURSIVE ConsumeIdentifier(_, _, _)
ConsumeIdentifier(input, pos, result) ==
    IF pos >= Len(input) THEN JsTok(JsIdentifier(result), pos)
    ELSE IF IsAsciiAlphanumeric(input[pos + 1]) \/ input[pos + 1] \in {"_", "$"}
         THEN ConsumeIdentifier(input, pos + 1, Append(result, input[pos + 1]))
    ELSE JsTok(JsIdentifier(result), pos)

\* JsLexer::consume_string; pos is already past the opening quote
RECURSIVE ConsumeString(_, _, _)
ConsumeString(input, pos, result) ==
    IF pos >= Len(input) THEN JsTok(JsStringLiteral(result), pos)
    ELSE IF input[pos + 1] = "\"" THEN JsTok(JsStringLiteral(result), pos + 1)
    ELSE ConsumeString(input, pos + 1, Append(result, input[pos + 1]))

\* JsLexer::consume_number
RECURSIVE ConsumeNumber(_, _, _)
ConsumeNumber(input, pos, num) ==
    IF pos >= Len(input) THEN JsTok(JsNumber(num), pos)
    ELSE IF IsAsciiDigit(input[pos + 1])
         THEN ConsumeNumber(input, pos + 1, num * 10 + DigitValue(input[pos + 1]))
    ELSE JsTok(JsNumber(num), pos)

\* The `while` loop of next(): the position of the first character that is
\* neither a space nor a newline, Len(input) when there is none
RECURSIVE SkipWhitespace(_, _)
SkipWhitespace(input, pos) ==
    IF pos >= Len(input) THEN pos
    ELSE IF input[pos + 1] \in {" ", "\n"} THEN SkipWhitespace(input, pos + 1)
    ELSE pos

\* The `match c` of next()
JsMatch(input, pos) ==
    LET c == input[pos + 1]
    IN  IF c \in {"+", "-", ";", "=", "(", ")", "{", "}", ",", "."}
        THEN JsTok(JsPunctuator(c), pos + 1)
        ELSE IF IsAsciiDigit(c) THEN ConsumeNumber(input, pos, 0)
        ELSE IF IsAsciiAlphabetic(c) \/ c \in {"_", "$"} THEN ConsumeIdentifier(input, pos, <<>>)
        ELSE IF c = "\"" THEN ConsumeString(input, pos + 1, <<>>)
        ELSE JsLexPanic(pos)

\* JsLexer::next
JsNext(input, pos) ==
    LET Word(at, k) ==
            IF k.panic THEN JsLexPanic(at)
            ELSE IF k.found THEN JsTok(JsKeyword(k.word), at + Len(k.word))
            ELSE JsMatch(input, at)
        Skipped(at) ==
            IF at >= Len(input) THEN JsTok(None, at)
            ELSE Word(at, CheckReservedWord(input, at, 1))
    IN  IF pos >= Len(input) THEN JsTok(None, pos)
        ELSE Skipped(SkipWhitespace(input, pos))


(***************************************************************************)
(* JavaScript parser (renderer/js/ast.rs)                                  *)
(* Option<Rc<Node>> is a node record or None.  The parser is the lexer's   *)
(* position before the token that peek() would show; every method yields   *)
(* the node (or list of nodes) it returns, the new position and a status:  *)
(* "ok", "panic", or "hang" when it loops without consuming a token.       *)
(***************************************************************************)
NewExpressionStatement(expression) ==
    [type |-> "ExpressionStatement", expression |-> expression]
NewAdditiveExpression(operator, left, right) ==
    [type |-> "AdditiveExpression", operator |-> operator, left |-> left, right |-> right]
NewAssignmentExpression(operator, left, right) ==
    [type |-> "AssignmentExpression", operator |-> operator, left |-> left, right |-> right]
NewMemberExpression(object, property) ==
    [type |-> "MemberExpression", object |-> object, property |-> property]
NewNumericLiteral(value) == [type |-> "NumericLiteral", value |-> value]
NewVariableDeclarator(id, init) == [type |-> "VariableDeclarator", id |-> id, init |-> init]
NewVariableDeclaration(declarations) ==
    [type |-> "VariableDeclaration", declarations |-> declarations]
NewIdentifier(name) == [type |-> "Identifier", name |-> name]
NewStringLiteral(value) == [type |-> "StringLiteral", value |-> value]
NewBlockStatement(body) == [type |-> "BlockStatement", body |-> body]
NewReturnStatement(argument) == [type |-> "ReturnStatement", argument |-> argument]
NewFunctionDeclaration(id, params, body) ==
    [type |-> "FunctionDeclaration", id |-> id, params |-> params, body |-> body]
NewCallExpression(callee, arguments) ==
    [type |-> "CallExpression", callee |-> callee, arguments |-> arguments]

JOk(node, pos) == [node |-> node, pos |-> pos, status |-> "ok"]
JFail(status, pos) == [node |-> None, pos |-> pos, status |-> status]
IsPunctuator(t, c) == t.tok.type = "Punctuator" /\ t.tok.c = c
IsKeyword(t, word) == t.tok.type = "Keyword" /\ t.tok.str = word

\* JsParser::primary_expression
PrimaryExpression(input, pos) ==
    LET Got(t) ==
            IF t.panic THEN JFail("panic", t.pos)
            ELSE IF t.tok.type = "Identifier" THEN JOk(NewIdentifier(t.tok.str), t.pos)
            ELSE IF t.tok.type = "StringLiteral" THEN JOk(NewStringLiteral(t.tok.str), t.pos)
            ELSE IF t.tok.type = "Number" THEN JOk(NewNumericLiteral(t.tok.num), t.pos)
            ELSE JOk(None, t.pos)
    IN  Got(JsNext(input, pos))

\* JsParser::identifier
Identifier(input, pos) ==
    LET Got(t) ==
            IF t.panic THEN JFail("panic", t.pos)
            ELSE IF t.tok.type = "Identifier" THEN JOk(NewIdentifier(t.tok.str), t.pos)
            ELSE JOk(None, t.pos)
    IN  Got(JsNext(input, pos))

\* JsParser::member_expression
MemberExpression(input, pos) ==
    LET Property(expr, r) ==
            IF r.status # "ok" THEN r ELSE JOk(NewMemberExpression(expr, r.node), r.pos)
        Peeked(e, t) ==
            IF t.panic THEN JFail("panic", t.pos)
            ELSE IF IsPunctuator(t, ".") THEN Property(e.node, Identifier(input, t.pos))
            ELSE e
        Primary(e) == IF e.status # "ok" THEN e ELSE Peeked(e, JsNext(input, e.pos))
    IN  Primary(PrimaryExpression(input, pos))

RECURSIVE AssignmentExpression(_, _)

\* JsParser::arguments, with the arguments collected so far
RECURSIVE Arguments(_, _, _)
Arguments(input, pos, arguments) ==
    LET Pushed(r) ==
            IF r.status # "ok" THEN r
            ELSE Arguments(input, r.pos, Append(arguments, r.node))
        Peeked(t) ==
            IF t.panic THEN JFail("panic", t.pos)
            ELSE IF t.tok = None THEN JOk(arguments, pos)
            ELSE IF IsPunctuator(t, ")") THEN JOk(arguments, t.pos)
            ELSE IF IsPunctuator(t, ",") THEN Arguments(input, t.pos, arguments)
            ELSE IF t.tok.type = "Punctuator" THEN JFail("hang", pos)
            ELSE Pushed(AssignmentExpression(input, pos))
    IN  Peeked(JsNext(input, pos))

\* JsParser::left_hand_side_expression
LeftHandSideExpression(input, pos) ==
    LET Call(expr, r) ==
            IF r.status # "ok" THEN r ELSE JOk(NewCallExpression(expr, r.node), r.pos)
        Peeked(e, t) ==
            IF t.panic THEN JFail("panic", t.pos)
            ELSE IF IsPunctuator(t, "(") THEN Call(e.node, Arguments(input, t.pos, <<>>))
            ELSE e
        Member(e) == IF e.status # "ok" THEN e ELSE Peeked(e, JsNext(input, e.pos))
    IN  Member(MemberExpression(input, pos))

\* JsParser::additive_expression
AdditiveExpression(input, pos) ==
    LET Right(c, left, r) ==
            IF r.status # "ok" THEN r ELSE JOk(NewAdditiveExpression(c, left, r.node), r.pos)
        Peeked(e, t) ==
            IF t.panic THEN JFail("panic", t.pos)
            ELSE IF IsPunctuator(t, "+") \/ IsPunctuator(t, "-")
                 THEN Right(t.tok.c, e.node, AssignmentExpression(input, t.pos))
            ELSE e
        Left(e) == IF e.status # "ok" THEN e ELSE Peeked(e, JsNext(input, e.pos))
    IN  Left(LeftHandSideExpression(input, pos))

\* JsParser::assignment_expression
AssignmentExpression(input, pos) ==
    LET Right(expr, r) ==
            IF r.status # "ok" THEN r
            ELSE JOk(NewAssignmentExpression("=", expr, r.node), r.pos)
        Peeked(e, t) ==
            IF t.panic THEN JFail("panic", t.pos)
            ELSE IF IsPunctuator(t, "=") THEN Right(e.node, AssignmentExpression(input, t.pos))
            ELSE e
        Expr(e) == IF e.status # "ok" THEN e ELSE Peeked(e, JsNext(input, e.pos))
    IN  Expr(AdditiveExpression(input, pos))

\* JsParser::initialiser
Initialiser(input, pos) ==
    LET Got(t) ==
            IF t.panic THEN JFail("panic", t.pos)
            ELSE IF IsPunctuator(t, "=") THEN AssignmentExpression(input, t.pos)
            ELSE JOk(None, t.pos)
    IN  Got(JsNext(input, pos))

\* JsParser::variable_declaration
VariableDeclaration(input, pos) ==
    LET Initialised(ident, r) ==
            IF r.status # "ok" THEN r
            ELSE JOk(NewVariableDeclaration(<<NewVariableDeclarator(ident, r.node)>>), r.pos)
        Ident(r) == IF r.status # "ok" THEN r ELSE Initialised(r.node, Initialiser(input, r.pos))
    IN  Ident(Identifier(input, pos))


\* JsParser::statement
Statement(input, pos) ==
    LET Semicolon(r, t) ==
            IF t.panic THEN JFail("panic", t.pos)
            ELSE IF IsPunctuator(t, ";") THEN JOk(r.node, t.pos)
            ELSE r
        Node(r) == IF r.status # "ok" THEN r ELSE Semicolon(r, JsNext(input, r.pos))
        Wrap(is_return, r) ==
            IF r.status # "ok" THEN r
            ELSE IF is_return THEN JOk(NewReturnStatement(r.node), r.pos)
            ELSE JOk(NewExpressionStatement(r.node), r.pos)
        Peeked(t) ==
            IF t.panic THEN JFail("panic", t.pos)
            ELSE IF t.tok = None THEN JOk(None, pos)
            ELSE Node(IF IsKeyword(t, S_var) THEN VariableDeclaration(input, t.pos)
                      ELSE IF t.tok.type = "Keyword" /\ ~IsKeyword(t, S_return)
                           THEN JOk(None, pos)
                      ELSE Wrap(IsKeyword(t, S_return),
                                AssignmentExpression(input, IF IsKeyword(t, S_return)
                                                            THEN t.pos ELSE pos)))
    IN  Peeked(JsNext(input, pos))

\* JsParser::parameter_list after its opening parenthesis, with the
\* parameters collected so far
RECURSIVE ParameterListLoop(_, _, _)
ParameterListLoop(input, pos, params) ==
    LET Pushed(r) ==
            IF r.status # "ok" THEN r
            ELSE ParameterListLoop(input, r.pos, Append(params, r.node))
        Peeked(t) ==
            IF t.panic THEN JFail("panic", t.pos)
            ELSE IF t.tok = None THEN JOk(params, pos)
            ELSE IF IsPunctuator(t, ")") THEN JOk(params, t.pos)
            ELSE IF IsPunctuator(t, ",") THEN ParameterListLoop(input, t.pos, params)
            ELSE IF t.tok.type = "Punctuator" THEN JFail("hang", pos)
            ELSE Pushed(Identifier(input, pos))
    IN  Peeked(JsNext(input, pos))

\* JsParser::parameter_list
ParameterList(input, pos) ==
    LET Got(t) ==
            IF t.panic \/ ~IsPunctuator(t, "(") THEN JFail("panic", t.pos)
            ELSE ParameterListLoop(input, t.pos, <<>>)
    IN  Got(JsNext(input, pos))

RECURSIVE SourceElement(_, _)

\* The loop of JsParser::function_body, with the statements collected so
\* far.  An iteration that consumes no token (the input has ended) repeats
\* for ever.
RECURSIVE FunctionBodyLoop(_, _, _)
FunctionBodyLoop(input, pos, body) ==
    LET Pushed(r) ==
            IF r.status # "ok" THEN r
            ELSE IF r.pos = pos THEN JFail("hang", pos)
            ELSE FunctionBodyLoop(input, r.pos, Append(body, r.node))
        Peeked(t) ==
            IF t.panic THEN JFail("panic", t.pos)
            ELSE IF IsPunctuator(t, "}") THEN JOk(NewBlockStatement(body), t.pos)
            ELSE Pushed(SourceElement(input, pos))
    IN  Peeked(JsNext(input, pos))

\* JsParser::function_body
FunctionBody(input, pos) ==
    LET Got(t) ==
            IF t.panic \/ ~IsPunctuator(t, "{") THEN JFail("panic", t.pos)
            ELSE FunctionBodyLoop(input, t.pos, <<>>)
    IN  Got(JsNext(input, pos))

\* JsParser::function_declaration
FunctionDeclaration(input, pos) ==
    LET Body(id, params, r) ==
            IF r.status # "ok" THEN r
            ELSE JOk(NewFunctionDeclaration(id, params, r.node), r.pos)
        Params(id, r) ==
            IF r.status # "ok" THEN r ELSE Body(id, r.node, FunctionBody(input, r.pos))
        Id(r) == IF r.status # "ok" THEN r ELSE Params(r.node, ParameterList(input, r.pos))
    IN  Id(Identifier(input, pos))

\* JsParser::source_element
SourceElement(input, pos) ==
    LET Peeked(t) ==
            IF t.panic THEN JFail("panic", t.pos)
            ELSE IF t.tok = None THEN JOk(None, pos)
            ELSE IF IsKeyword(t, S_function) THEN FunctionDeclaration(input, t.pos)
            ELSE Statement(input, pos)
    IN  Peeked(JsNext(input, pos))

\* JsParser::parse_ast, with the body collected so far; on "ok" the node
\* of the result is the body of the Program
RECURSIVE ParseAstLoop(_, _, _)
ParseAstLoop(input, pos, body) ==
    LET Got(r) ==
            IF r.status # "ok" THEN r
            ELSE IF r.node = None THEN JOk(body, r.pos)
            ELSE ParseAstLoop(input, r.pos, Append(body, r.node))
    IN  Got(SourceElement(input, pos))

ParseAst(input) == ParseAstLoop(input, 0, <<>>)


(***************************************************************************)
(* JavaScript runtime (renderer/js/runtime.rs)                             *)
(* Option<RuntimeValue> is a value record or None.  The environments live  *)
(* in an arena: an environment is its index, the global one is 1 and outer *)
(* is 0 for None.  The runtime rt is the DOM, the function table, the      *)
(* arena and the set of environments whose RefCell is mutably borrowed.    *)
(***************************************************************************)
RuntimeNumber(num) == [type |-> "Number", num |-> num]
RuntimeStringLiteral(str) == [type |-> "StringLiteral", str |-> str]
RuntimeHtmlElement(object, has_property, property) ==
    [type |-> "HtmlElement", object |-> object,
     has_property |-> has_property, property |-> property]

S_dot == <<".">>
S_document_getElementById ==
    <<"d","o","c","u","m","e","n","t",".",
      "g","e","t","E","l","e","m","e","n","t","B","y","I","d">>
S_textContent == <<"t","e","x","t","C","o","n","t","e","n","t">>

\* format!("{}", value) of a u64
RECURSIVE NumToString(_)
NumToString(n) ==
    IF n < 10 THEN <<DigitChars[n + 1]>>
    ELSE Append(NumToString(n \div 10), DigitChars[(n % 10) + 1])

\* Display for RuntimeValue.  The text of an element is the debug print of
\* its node, which no identifier, attribute value or literal of the
\* programs considered equals; it is kept as a marker and the node's index.
ValueToString(v) ==
    CASE v.type = "Number" -> NumToString(v.num)
      [] v.type = "StringLiteral" -> v.str
      [] v.type = "HtmlElement" -> <<"HtmlElement: ">> \o NumToString(v.object)

\* Add for RuntimeValue; the sums of the programs considered stay below 2^64
RuntimeAdd(left, right) ==
    IF left.type = "Number" /\ right.type = "Number"
    THEN RuntimeNumber(left.num + right.num)
    ELSE RuntimeStringLiteral(ValueToString(left) \o ValueToString(right))

\* Sub for RuntimeValue.  left_num - right_num below zero overflows the
\* u64: a panic with overflow checks, a wrapped value without; the model
\* records the overflow and follows the execution no further.
RuntimeSub(left, right) ==
    IF left.type = "Number" /\ right.type = "Number"
    THEN IF left.num < right.num
         THEN [value |-> None, overflow |-> TRUE]
         ELSE [value |-> RuntimeNumber(left.num - right.num), overflow |-> FALSE]
    ELSE [value |-> RuntimeNumber(0), overflow |-> FALSE]

\* Function::new
NewFunction(id, params, body) == [id |-> id, params |-> params, body |-> body]

\* Environment::new
NewEnvironment(outer) == [variables |-> <<>>, outer |-> outer]

\* The first variable of the name among the variables from the i-th on, 0 if none
RECURSIVE VariableIndex(_, _, _)
VariableIndex(variables, name, i) ==
    IF i > Len(variables) THEN 0
    ELSE IF variables[i].name = name THEN i
    ELSE VariableIndex(variables, name, i + 1)

\* Environment::get_variable on environment e.  Reaching the outer
\* environment borrows it mutably, which panics when it is borrowed already.
RECURSIVE GetVariable(_, _, _, _)
GetVariable(envs, borrowed, e, name) ==
    LET Found(i) ==
            IF i # 0 THEN [value |-> envs[e].variables[i].value, panic |-> FALSE]
            ELSE IF envs[e].outer = 0 THEN [value |-> None, panic |-> FALSE]
            ELSE IF envs[e].outer \in borrowed THEN [value |-> None, panic |-> TRUE]
            ELSE GetVariable(envs, borrowed, envs[e].outer, name)
    IN  Found(VariableIndex(envs[e].variables, name, 1))

\* Environment::add_variable
AddVariable(env, name, value) ==
    [env EXCEPT !.variables = Append(@, [name |-> name, value |-> value])]

\* Environment::update_variable
UpdateVariable(env, name, value) ==
    LET Found(i) ==
            IF i = 0 THEN env
            ELSE [env EXCEPT !.variables =
                      Append(SubSeq(@, 1, i - 1) \o SubSeq(@, i + 1, Len(@)),
                             [name |-> name, value |-> value])]
    IN  Found(VariableIndex(env.variables, name, 1))

\* JsRuntime::new
NewJsRuntime(d) ==
    [dom |-> d, functions |-> <<>>, envs |-> <<NewEnvironment(0)>>, borrowed |-> {}]

\* get_element_by_id (renderer/dom/api.rs) from node n, 0 for None
RECURSIVE GetElementById(_, _, _)
GetElementById(d, n, id_name) ==
    LET Sibling(result1) ==
            IF result1 # 0 THEN result1
            ELSE GetElementById(d, d[n].next_sibling, id_name)
    IN  IF n = 0 THEN 0
        ELSE IF d[n].kind = "Element"
                /\ \E i \in 1..Len(d[n].attributes) :
                      d[n].attributes[i].name = S_id /\ d[n].attributes[i].value = id_name
             THEN n
        ELSE Sibling(GetElementById(d, d[n].first_child, id_name))

\* The nodes held by strong references (first_child, next_sibling) from n on
RECURSIVE StrongFrom(_, _)
StrongFrom(d, n) ==
    IF n = 0 THEN {}
    ELSE {n} \cup StrongFrom(d, d[n].first_child) \cup StrongFrom(d, d[n].next_sibling)

\* A textContent assignment that appended the new Text node after the
\* children the element has, instead of replacing them
AppendTextChild(d, object, text) ==
    IF d[object].first_child = 0
    THEN Append([d EXCEPT ![object].first_child = Len(d) + 1], NewNode("Text", "", <<>>, text))
    ELSE Append([d EXCEPT ![LastSibling(d, d[object].first_child)].next_sibling = Len(d) + 1],
                NewNode("Text", "", <<>>, text))

\* Node::set_first_child with a new Text node, as the textContent branch of
\* eval calls it.  The nodes no strong reference holds any more are
\* dropped: the weak references to them (parent, last_child,
\* previous_sibling) upgrade to None from then on.
SetFirstChildText(d, object, text) ==
    LET Weak(live, link) == IF link \in live THEN link ELSE 0
        Dropped(set, live) ==
            [i \in 1..Len(set) |->
                [set[i] EXCEPT !.parent = Weak(live, @), !.last_child = Weak(live, @),
                               !.previous_sibling = Weak(live, @)]]
        Set(set) == Dropped(set, StrongFrom(set, Document))
    IN  Set(Append([d EXCEPT ![object].first_child = Len(d) + 1],
                   NewNode("Text", "", <<>>, text)))


\* The outcome of eval: the value returned and the runtime after it, or the
\* way the evaluation stopped: "panic" with the reason, "overflow" (a u64
\* subtraction below zero) or "depth" (more than MaxCallDepth nested calls)
EvalOk(value, rt) == [value |-> value, rt |-> rt, status |-> "ok", reason |-> ""]
EvalStop(status, reason, rt) ==
    [value |-> None, rt |-> rt, status |-> status, reason |-> reason]
EvalPanic(reason, rt) == EvalStop("panic", reason, rt)

MaxCallDepth == 3

RECURSIVE Eval(_, _, _, _)

\* Node::AdditiveExpression
EvalAdditive(node, env, rt, depth) ==
    LET Difference(s, rt2) ==
            IF s.overflow THEN EvalStop("overflow", "", rt2) ELSE EvalOk(s.value, rt2)
        Right(l, r) ==
            IF r.status # "ok" \/ r.value = None THEN r
            ELSE IF node.operator = "+" THEN EvalOk(RuntimeAdd(l, r.value), r.rt)
            ELSE IF node.operator = "-" THEN Difference(RuntimeSub(l, r.value), r.rt)
            ELSE EvalOk(None, r.rt)
        Left(l) ==
            IF l.status # "ok" \/ l.value = None THEN l
            ELSE Right(l.value, Eval(node.right, env, l.rt, depth))
    IN  Left(Eval(node.left, env, rt, depth))

\* Node::AssignmentExpression
EvalAssignment(node, env, rt, depth) ==
    LET Update(r) ==
            IF r.status # "ok" THEN r
            ELSE IF env \in r.rt.borrowed THEN EvalPanic("already borrowed", r.rt)
            ELSE EvalOk(None, [r.rt EXCEPT !.envs[env] =
                                   UpdateVariable(@, node.left.name, r.value)])
        TextContent(l, r) ==
            IF r.status # "ok" \/ r.value = None THEN r
            ELSE IF l.has_property /\ l.property = S_textContent
                 THEN EvalOk(None, [r.rt EXCEPT !.dom =
                                       SetFirstChildText(@, l.object, ValueToString(r.value))])
            ELSE EvalOk(None, r.rt)
        Left(l) ==
            IF l.status # "ok" THEN l
            ELSE IF l.value.type = "HtmlElement"
                 THEN TextContent(l.value, Eval(node.right, env, l.rt, depth))
            ELSE EvalOk(None, l.rt)
    IN  IF node.operator # "=" THEN EvalOk(None, rt)
        ELSE IF node.left.type = "Identifier" THEN Update(Eval(node.right, env, rt, depth))
        ELSE Left(Eval(node.left, env, rt, depth))

\* Node::MemberExpression
EvalMember(node, env, rt, depth) ==
    LET Property(o, p) ==
            IF p.status # "ok" THEN p
            ELSE IF p.value = None THEN EvalOk(o, p.rt)
            ELSE IF o.type = "HtmlElement"
                 THEN IF o.has_property THEN EvalPanic("property.is_none()", p.rt)
                      ELSE EvalOk(RuntimeHtmlElement(o.object, TRUE, ValueToString(p.value)),
                                  p.rt)
            ELSE EvalOk(RuntimeAdd(RuntimeAdd(o, RuntimeStringLiteral(S_dot)), p.value), p.rt)
        Object(o) ==
            IF o.status # "ok" \/ o.value = None THEN o
            ELSE Property(o.value, Eval(node.property, env, o.rt, depth))
    IN  Object(Eval(node.object, env, rt, depth))

\* Node::VariableDeclarator
EvalVariableDeclarator(node, env, rt, depth) ==
    LET Initialised(r) ==
            IF r.status # "ok" THEN r
            ELSE IF env \in r.rt.borrowed THEN EvalPanic("already borrowed", r.rt)
            ELSE EvalOk(None, [r.rt EXCEPT !.envs[env] =
                                   AddVariable(@, node.id.name, r.value)])
    IN  IF node.id.type = "Identifier" THEN Initialised(Eval(node.init, env, rt, depth))
        ELSE EvalOk(None, rt)

\* Node::Identifier
EvalIdentifier(node, env, rt) ==
    LET Got(v) ==
            IF v.panic THEN EvalPanic("already borrowed", rt)
            ELSE IF v.value = None THEN EvalOk(RuntimeStringLiteral(node.name), rt)
            ELSE EvalOk(v.value, rt)
    IN  IF env \in rt.borrowed THEN EvalPanic("already borrowed", rt)
        ELSE Got(GetVariable(rt.envs, rt.borrowed, env, node.name))

\* The `for` loops of Node::BlockStatement and Node::VariableDeclaration
\* from the i-th node on; result is the value of the node before
RECURSIVE EvalEach(_, _, _, _, _, _)
EvalEach(nodes, i, env, rt, depth, result) ==
    LET Got(r) ==
            IF r.status # "ok" THEN r
            ELSE EvalEach(nodes, i + 1, env, r.rt, depth, r.value)
    IN  IF i > Len(nodes) THEN EvalOk(result, rt)
        ELSE Got(Eval(nodes[i], env, rt, depth))

\* Node::VariableDeclaration
EvalVariableDeclaration(node, env, rt, depth) ==
    LET Done(r) == IF r.status # "ok" THEN r ELSE EvalOk(None, r.rt)
    IN  Done(EvalEach(node.declarations, 1, env, rt, depth, None))

\* Node::FunctionDeclaration
EvalFunctionDeclaration(node, env, rt, depth) ==
    LET Id(r) ==
            IF r.status # "ok" THEN r
            ELSE IF r.value.type = "StringLiteral"
                 THEN EvalOk(None, [r.rt EXCEPT !.functions =
                                       Append(@, NewFunction(r.value.str, node.params,
                                                             node.body))])
            ELSE EvalOk(None, r.rt)
    IN  Id(Eval(node.id, env, rt, depth))


\* The function the call names: the last one of the table whose id the
\* callee's value equals, 0 when there is none
FindFunction(functions, callee_value) ==
    LET hits == {i \in 1..Len(functions) :
                    callee_value = RuntimeStringLiteral(functions[i].id)}
    IN  IF hits = {} THEN 0 ELSE CHOOSE i \in hits : \A j \in hits : j <= i

\* JsRuntime::call_browser_api; handled tells whether the callee was a
\* browser API
CallBrowserApi(func, arguments, env, rt, depth) ==
    LET Target(a, n) ==
            IF n = 0 THEN EvalOk(None, a.rt)
            ELSE EvalOk(RuntimeHtmlElement(n, FALSE, <<>>), a.rt)
        Arg(a) ==
            IF a.status # "ok" \/ a.value = None THEN a
            ELSE Target(a, GetElementById(a.rt.dom, Document, ValueToString(a.value)))
        Api(r) == [handled |-> TRUE, result |-> r]
    IN  IF func = RuntimeStringLiteral(S_document_getElementById)
        THEN Api(IF arguments = <<>> THEN EvalPanic("index out of bounds", rt)
                 ELSE Arg(Eval(arguments[1], env, rt, depth)))
        ELSE [handled |-> FALSE, result |-> EvalOk(None, rt)]

\* The `for (i, item)` loop of Node::CallExpression from the i-th argument
\* on.  The new environment is mutably borrowed while the argument is
\* evaluated, because the receiver of add_variable is evaluated first.
RECURSIVE BindArguments(_, _, _, _, _, _)
BindArguments(function, arguments, i, new_env, rt, depth) ==
    LET Added(name, borrowed, v) ==
            IF v.status # "ok" THEN v
            ELSE BindArguments(function, arguments, i + 1, new_env,
                               [v.rt EXCEPT !.envs[new_env] = AddVariable(@, name, v.value),
                                            !.borrowed = borrowed],
                               depth)
        Param(p) ==
            IF p.status # "ok" THEN p
            ELSE IF p.value.type = "StringLiteral"
                 THEN Added(p.value.str, p.rt.borrowed,
                            Eval(arguments[i], new_env,
                                 [p.rt EXCEPT !.borrowed = @ \cup {new_env}], depth))
            ELSE BindArguments(function, arguments, i + 1, new_env, p.rt, depth)
    IN  IF i > Len(arguments) THEN EvalOk(None, rt)
        ELSE Param(Eval(function.params[i], new_env, rt, depth))

\* Node::CallExpression
EvalCall(node, env, rt, depth) ==
    LET new_env == Len(rt.envs) + 1
        \* the new environment is dropped when the call returns
        Leave(r) ==
            IF r.status # "ok" THEN r
            ELSE [r EXCEPT !.rt.envs = SubSeq(@, 1, new_env - 1)]
        Body(function, b) ==
            IF b.status # "ok" THEN b
            ELSE IF depth >= MaxCallDepth THEN EvalStop("depth", "", b.rt)
            ELSE Eval(function.body, new_env, b.rt, depth + 1)
        Call(function, rt2) ==
            IF Len(node.arguments) # Len(function.params)
            THEN EvalPanic("arguments.len() == function.params.len()", rt2)
            ELSE Body(function, BindArguments(function, node.arguments, 1, new_env, rt2, depth))
        Function(f, rt2) ==
            IF f = 0 THEN EvalPanic("function doesn't exist", rt2)
            ELSE Call(rt2.functions[f], rt2)
        Api(callee_value, api_result, rt2) ==
            IF api_result.handled THEN api_result.result
            ELSE Function(FindFunction(rt2.functions, callee_value), rt2)
        Callee(c) ==
            IF c.status # "ok" \/ c.value = None THEN c
            ELSE Api(c.value, CallBrowserApi(c.value, node.arguments, new_env, c.rt, depth),
                     c.rt)
    IN  Leave(Callee(Eval(node.callee, new_env,
                          [rt EXCEPT !.envs = Append(@, NewEnvironment(env))], depth)))

\* JsRuntime::eval
Eval(node, env, rt, depth) ==
    CASE node.type = "None"                 -> EvalOk(None, rt)
      [] node.type = "ExpressionStatement"  -> Eval(node.expression, env, rt, depth)
      [] node.type = "AdditiveExpression"   -> EvalAdditive(node, env, rt, depth)
      [] node.type = "AssignmentExpression" -> EvalAssignment(node, env, rt, depth)
      [] node.type = "MemberExpression"     -> EvalMember(node, env, rt, depth)
      [] node.type = "NumericLiteral"       -> EvalOk(RuntimeNumber(node.value), rt)
      [] node.type = "VariableDeclaration"  -> EvalVariableDeclaration(node, env, rt, depth)
      [] node.type = "VariableDeclarator"   -> EvalVariableDeclarator(node, env, rt, depth)
      [] node.type = "Identifier"           -> EvalIdentifier(node, env, rt)
      [] node.type = "StringLiteral"        -> EvalOk(RuntimeStringLiteral(node.value), rt)
      [] node.type = "BlockStatement"       -> EvalEach(node.body, 1, env, rt, depth, None)
      [] node.type = "ReturnStatement"      -> Eval(node.argument, env, rt, depth)
      [] node.type = "FunctionDeclaration"  -> EvalFunctionDeclaration(node, env, rt, depth)
      [] node.type = "CallExpression"       -> EvalCall(node, env, rt, depth)


(***************************************************************************)
(* Page (renderer/page.rs); the frame's DOM is the variable dom            *)
(***************************************************************************)
\* Page::new
NewPage == [frame |-> FALSE, style |-> None, layout_view |-> None, display_items |-> <<>>]

\* Page::clicked: the href of the `a` element whose layout object is the
\* parent of the object hit, None otherwise
PageClicked(d, p, position) ==
    LET Parent(o) ==
            IF d[o].kind = "Element" /\ d[o].element_kind = "A"
            THEN GetAttribute(d[o], S_href) ELSE None
        Hit(n) ==
            IF n = 0 THEN None
            ELSE IF p.layout_view.objs[n].parent = 0 THEN None
            ELSE Parent(p.layout_view.objs[n].parent)
    IN  IF p.layout_view = None THEN None
        ELSE Hit(FindNodeByPositionInternal(p.layout_view.objs, p.layout_view.root, position))

\* Page::set_layout_view
SetLayoutViewOf(d, p) ==
    IF ~p.frame \/ p.style = None THEN p
    ELSE [p EXCEPT !.layout_view = NewLayoutView(d, p.style.rules)]

\* Page::paint_tree keeping the display items the page already holds
PaintTreeAppending(d, p) ==
    IF p.layout_view = None THEN p
    ELSE [p EXCEPT !.display_items = @ \o PaintNode(d, p.layout_view.objs, p.layout_view.root)]


\* Page::paint_tree
PaintTreeOf(d, p) ==
    IF p.layout_view = None THEN p
    ELSE [p EXCEPT !.display_items = PaintNode(d, p.layout_view.objs, p.layout_view.root)]

(***************************************************************************)
(* Specifications                                                          *)
(***************************************************************************)
\* Values of the variables a specification does not use
IdleTokenizer == NewTokenizer(<<>>)
IdleCss == NewCssParser(<<>>)
IdleNet == [input |-> <<>>, requests |-> <<>>, responses |-> <<>>, result |-> None]
\* The state of Page::execute_js: the script, the body of the Program
\* parsed from it, the index of the next statement that execute evaluates,
\* the runtime's function table and environments, and how far it got:
\* "new", "run", "done", or the way the parser ("parser panic", "parser
\* hang") or the runtime ("panic", "overflow", "depth") stopped
NewJs(input) ==
    [input |-> input, body |-> <<>>, next |-> 1, functions |-> <<>>,
     envs |-> <<NewEnvironment(0)>>, status |-> "new", reason |-> ""]
IdleJs == NewJs(<<>>)

RECURSIVE SeqsUpTo(_, _)
\* All sequences over S of length at most n
SeqsUpTo(S, n) ==
    IF n = 0 THEN {<<>>}
    ELSE LET shorter == SeqsUpTo(S, n - 1)
         IN  shorter \cup {Append(s, x) : s \in shorter, x \in S}

(***************************************************************************)
(* SpecTokenizer: the HTML tokenizer over every short input; one step per  *)
(* call of next().                                                         *)
(***************************************************************************)
MaxHtmlLen == 4
HtmlAlphabet == {"<", "/", ">", "a", " ", "=", "\""}
HtmlInputs == SeqsUpTo(HtmlAlphabet, MaxHtmlLen)

InitTokenizer ==
    /\ \E html \in HtmlInputs : tokenizer = NewTokenizer(html)
    /\ token = None
    /\ parser = NewParser
    /\ dom = NewWindow
    /\ css = IdleCss
    /\ js = IdleJs
    /\ page = NewPage
    /\ clicked = None
    /\ net = IdleNet
    /\ pc = "next"

\* One call of HtmlTokenizer::next
TokNext ==
    /\ pc = "next"
    /\ LET r == TokenizerNext(tokenizer)
       IN  /\ tokenizer' = r.t
           /\ token' = r.out
           /\ pc' = IF r.panic THEN "panic"
                    ELSE IF r.out = None THEN "eos" ELSE "next"
    /\ UNCHANGED <<parser, dom, css, js, page, clicked, net>>

NextTokenizer == TokNext
SpecTokenizer == InitTokenizer /\ [][NextTokenizer]_vars

(***************************************************************************)
(* SpecParser: HtmlParser::construct_tree over every short token sequence. *)
(* The tokenizer is kept only as the number of tokens it has produced; the *)
(* tokens themselves are chosen freely.  One step per loop iteration.      *)
(***************************************************************************)
MaxTokens == 4
ParserTags == {S_html, S_head, S_body, S_style, S_script, S_p, S_a}
ParserTokens ==
    {TokStartTag(t, FALSE, <<>>) : t \in ParserTags \cup {S_br}}
    \cup {TokEndTag(t) : t \in ParserTags}
    \cup {TokChar("x"), TokChar(" "), TokEof}

\* `self.t.next()` of the tree builder: any token, or the end of the sequence
NextTokens == IF tokenizer.pos < MaxTokens THEN ParserTokens \cup {None} ELSE {None}

InitParser ==
    /\ tokenizer = [IdleTokenizer EXCEPT !.pos = 1]
    /\ token \in ParserTokens \cup {None}
    /\ parser = NewParser
    /\ dom = NewWindow
    /\ css = IdleCss
    /\ js = IdleJs
    /\ page = NewPage
    /\ clicked = None
    /\ net = IdleNet
    /\ pc = "tree"

\* One iteration of the loop of construct_tree, or its exit
ConstructTreeStep ==
    /\ pc = "tree"
    /\ IF token = None
       THEN /\ pc' = "window"
            /\ UNCHANGED <<tokenizer, token, parser, dom>>
       ELSE LET r == ConstructTreeIter([parser |-> parser, dom |-> dom], token)
            IN  /\ parser' = r.st.parser
                /\ dom' = r.st.dom
                /\ pc' = IF r.panic THEN "panic" ELSE IF r.ret THEN "window" ELSE "tree"
                /\ IF r.advance /\ ~r.panic /\ ~r.ret
                   THEN /\ \E t \in NextTokens : token' = t
                        /\ tokenizer' = [tokenizer EXCEPT !.pos = @ + 1]
                   ELSE UNCHANGED <<tokenizer, token>>
    /\ UNCHANGED <<css, js, page, clicked, net>>

NextParser == ConstructTreeStep
SpecParser == InitParser /\ [][NextParser]_vars

\* construct_tree is one sequential loop: whenever an iteration can run, it runs
SpecParserLive == SpecParser /\ WF_vars(NextParser)

(***************************************************************************)
(* SpecCss: the CSS tokenizer and parser over every short style text; one  *)
(* step per iteration of consume_list_of_rules.                            *)
(***************************************************************************)
MaxCssLen == 4
CssAlphabet == {"p", "{", "}", ":", ";", ".", "@", " ", "*"}
CssInputs == SeqsUpTo(CssAlphabet, MaxCssLen)

InitCss ==
    /\ tokenizer = IdleTokenizer
    /\ token = None
    /\ parser = NewParser
    /\ dom = NewWindow
    /\ \E style \in CssInputs : css = NewCssParser(style)
    /\ js = IdleJs
    /\ page = NewPage
    /\ clicked = None
    /\ net = IdleNet
    /\ pc = "css"

ConsumeRule ==
    /\ pc = "css"
    /\ css.status = "run"
    /\ css' = ConsumeListOfRulesIter(css)
    /\ UNCHANGED <<tokenizer, token, parser, dom, js, page, clicked, net, pc>>

NextCss == ConsumeRule
SpecCss == InitCss /\ [][NextCss]_vars

(***************************************************************************)
(* SpecLayout: Page over every short body.  The response is given as the   *)
(* tokens of `<html><head><style>TEXT</style></head><body>` followed by a  *)
(* few body-level tokens; create_frame builds the DOM and the stylesheet   *)
(* from them, then set_layout_view, paint_tree and clicked run.  No page   *)
(* here has a script, so execute_js does nothing.                          *)
(***************************************************************************)
\* One iteration of the loop of construct_tree over the tokens the tokenizer
\* yields, on s = [r, i]: the outcome of the iteration before and the index
\* of the token of this one
ConstructTreeAt(s, tokens) ==
    LET Iterated(r) == [r |-> r, i |-> IF r.advance THEN s.i + 1 ELSE s.i]
    IN  IF s.r.panic \/ s.r.ret THEN s
        ELSE IF s.i > Len(tokens) THEN [s EXCEPT !.r = Ret(s.r.st)]
        ELSE Iterated(ConstructTreeIter(s.r.st, tokens[s.i]))

\* At most n iterations of that loop: the first half of them, then the rest
\* unless the loop was left
RECURSIVE ConstructTreeRun(_, _, _)
ConstructTreeRun(s, tokens, n) ==
    LET Rest(half) ==
            IF half.r.panic \/ half.r.ret THEN half
            ELSE ConstructTreeRun(half, tokens, n - n \div 2)
    IN  IF n = 0 THEN s
        ELSE IF n = 1 THEN ConstructTreeAt(s, tokens)
        ELSE Rest(ConstructTreeRun(s, tokens, n \div 2))

\* Fewer than MaxReprocess iterations in a row keep their token
MaxReprocess == 8

\* HtmlParser::construct_tree over the tokens the tokenizer yields from the i-th on
ConstructTree(st, tokens, i) ==
    ConstructTreeRun([r |-> Keep(st), i |-> i], tokens, MaxReprocess * (Len(tokens) + 2)).r

MaxBodyTokens == 4
S_u == <<"u">>
S_h == <<"h">>
Attr(name, value) == [name |-> name, value |-> value]
BodyTokens ==
    {TokStartTag(S_p, FALSE, <<>>), TokEndTag(S_p),
     TokStartTag(S_a, FALSE, <<Attr(S_href, S_u)>>), TokEndTag(S_a),
     TokStartTag(S_p, FALSE, <<Attr(S_class, S_h)>>),
     TokChar("x"), TokEndTag(S_body)}
StyleTexts ==
    {<<>>,
     <<".","h","{","d","i","s","p","l","a","y",":","n","o","n","e",";","}">>,
     <<"b","o","d","y","{","d","i","s","p","l","a","y",":","n","o","n","e",";","}">>,
     <<"h","t","m","l","{","d","i","s","p","l","a","y",":","n","o","n","e",";","}">>,
     <<"a","{","d","i","s","p","l","a","y",":","b","l","o","c","k",";","}">>}
ClickPositions == {<<4, 10>>, <<4, 30>>, <<12, 10>>, <<300, 10>>, <<8, 20>>, <<600, 10>>}

\* The tokens of `<html><head><style>text</style></head><body>` and the body
PageTokens(style_text, body) ==
    <<TokStartTag(S_html, FALSE, <<>>), TokStartTag(S_head, FALSE, <<>>),
      TokStartTag(S_style, FALSE, <<>>)>>
    \o [i \in 1..Len(style_text) |-> TokChar(style_text[i])]
    \o <<TokEndTag(S_style), TokEndTag(S_head), TokStartTag(S_body, FALSE, <<>>)>>
    \o body

InitLayout ==
    /\ tokenizer = IdleTokenizer
    /\ token = None
    /\ parser = NewParser
    /\ dom = NewWindow
    /\ css = IdleCss
    /\ js = IdleJs
    /\ page = NewPage
    /\ clicked = None
    /\ net = IdleNet
    /\ pc = "new"

\* Page::create_frame on the tokens of a response
CreateFrameFrom(tokens) ==
    LET Parsed(tree, sheet) ==
            /\ parser' = tree.st.parser
            /\ dom' = tree.st.dom
            /\ css' = sheet
            /\ page' = [page EXCEPT !.frame = TRUE, !.style = [rules |-> sheet.rules]]
            /\ pc' = IF sheet.status = "done" THEN "frame" ELSE "panic"
        Built(tree) ==
            IF tree.panic
            THEN /\ parser' = tree.st.parser
                 /\ dom' = tree.st.dom
                 /\ pc' = "panic"
                 /\ UNCHANGED <<css, page>>
            ELSE Parsed(tree, ParseStylesheet(NewCssParser(GetStyleContent(tree.st.dom))))
    IN  Built(ConstructTree([parser |-> NewParser, dom |-> NewWindow], tokens, 1))

\* Page::create_frame
CreateFrame ==
    /\ pc = "new"
    /\ \E style_text \in StyleTexts, body \in SeqsUpTo(BodyTokens, MaxBodyTokens) :
          CreateFrameFrom(PageTokens(style_text, body))
    /\ UNCHANGED <<tokenizer, token, js, clicked, net>>

\* Page::set_layout_view
SetLayoutView ==
    /\ pc = "frame"
    /\ page' = SetLayoutViewOf(dom, page)
    /\ pc' = "layout"
    /\ UNCHANGED <<tokenizer, token, parser, dom, css, js, clicked, net>>

\* Page::paint_tree
PaintTree ==
    /\ pc = "layout"
    /\ page' = PaintTreeOf(dom, page)
    /\ pc' = "painted"
    /\ UNCHANGED <<tokenizer, token, parser, dom, css, js, clicked, net>>

\* Page::clicked at some position of the content area
Clicked ==
    /\ pc = "painted"
    /\ \E position \in ClickPositions :
          clicked' = [position |-> position, href |-> PageClicked(dom, page, position)]
    /\ UNCHANGED <<tokenizer, token, parser, dom, css, js, page, net, pc>>

NextLayout == CreateFrame \/ SetLayoutView \/ PaintTree \/ Clicked
SpecLayout == InitLayout /\ [][NextLayout]_vars

(***************************************************************************)
(* SpecText: Page over the bodies `<TAG>TEXT</TAG>` for the tags p, h2 and *)
(* h1 (font sizes Medium, XLarge, XXLarge) and every text of at most       *)
(* MaxTextLen characters that is a run of `A` or words of WordLen `A`s     *)
(* with one space between them; create_frame, set_layout_view and          *)
(* paint_tree run in turn.                                                 *)
(***************************************************************************)
MaxTextLen == 200
WordLen == 9
TextTags == {S_p, S_h2, S_h1}
TextShapes == {"run", "words"}
TextOf(shape, length) ==
    [i \in 1..length |-> IF shape = "words" /\ i % (WordLen + 1) = 0 THEN " " ELSE "A"]
TextBody(tag, text) ==
    <<TokStartTag(tag, FALSE, <<>>)>> \o [i \in 1..Len(text) |-> TokChar(text[i])]
    \o <<TokEndTag(tag)>>

\* Page::create_frame on the response of one text
CreateTextFrame ==
    /\ pc = "new"
    /\ \E tag \in TextTags, shape \in TextShapes, length \in 1..MaxTextLen :
          CreateFrameFrom(PageTokens(<<>>, TextBody(tag, TextOf(shape, length))))
    /\ UNCHANGED <<tokenizer, token, js, clicked, net>>

NextText == CreateTextFrame \/ SetLayoutView \/ PaintTree
SpecText == InitLayout /\ [][NextText]_vars


(***************************************************************************)
(* SpecJs: JsParser::parse_ast and JsRuntime::execute over every program   *)
(* of at most MaxStatements statements of a pool, on the DOM of            *)
(* `<html><body><p id="t">x</p></body></html>`.  One step parses the       *)
(* script, then one step per top-level node of the Program.                *)
(***************************************************************************)
MaxStatements == 3
S_t == <<"t">>
S_x == <<"x">>
JsStatements ==
    {<<"v","a","r"," ","e","=","d","o","c","u","m","e","n","t",".","g","e","t",
       "E","l","e","m","e","n","t","B","y","I","d","(","\"","t","\"",")",";">>,
     <<"e",".","t","e","x","t","C","o","n","t","e","n","t","=","\"","h","\"",
       ";">>,
     <<"d","o","c","u","m","e","n","t",".","g","e","t","E","l","e","m","e","n",
       "t","B","y","I","d","(",")",";">>,
     <<"f","u","n","c","t","i","o","n"," ","f","(","a",")","{","r","e","t","u",
       "r","n"," ","a","+","1",";","}">>,
     <<"f","(","1",")",";">>,
     <<"f","(",")",";">>,
     <<"f","(","e",")",";">>,
     <<"g","(",")",";">>,
     <<"v","a","r"," ","p","=","e",".","t","e","x","t","C","o","n","t","e","n",
       "t",";">>,
     <<"p",".","x",";">>,
     <<"1","-","2",";">>,
     <<"f","u","n","c","t","i","o","n"," ","h","(",")","{","h","(",")",";","}",
       "h","(",")",";">>}

\* The concatenation of the texts
RECURSIVE Concat(_)
Concat(texts) == IF texts = <<>> THEN <<>> ELSE Head(texts) \o Concat(Tail(texts))

JsPrograms == {Concat(texts) : texts \in SeqsUpTo(JsStatements, MaxStatements)}

\* The DOM of `<html><body><p id="t">x</p></body></html>`
JsDom ==
    ConstructTree([parser |-> NewParser, dom |-> NewWindow],
                  <<TokStartTag(S_html, FALSE, <<>>), TokStartTag(S_body, FALSE, <<>>),
                    TokStartTag(S_p, FALSE, <<Attr(S_id, S_t)>>), TokChar("x"),
                    TokEndTag(S_p), TokEndTag(S_body), TokEndTag(S_html)>>, 1).st.dom

InitJs ==
    /\ tokenizer = IdleTokenizer
    /\ token = None
    /\ parser = NewParser
    /\ dom = JsDom
    /\ css = IdleCss
    /\ \E input \in JsPrograms : js = NewJs(input)
    /\ page = NewPage
    /\ clicked = None
    /\ net = IdleNet
    /\ pc = "js"

\* The first half of Page::execute_js: JsParser::parse_ast on the script
ParseProgram ==
    /\ pc = "js"
    /\ js.status = "new"
    /\ LET Parsed(r) ==
               IF r.status # "ok"
               THEN /\ js' = [js EXCEPT !.status = IF r.status = "hang" THEN "parser hang"
                                                   ELSE "parser panic"]
                    /\ pc' = "panic"
               ELSE /\ js' = [js EXCEPT !.body = r.node,
                                        !.status = IF r.node = <<>> THEN "done" ELSE "run"]
                    /\ pc' = IF r.node = <<>> THEN "frame" ELSE "js"
       IN  Parsed(ParseAst(js.input))
    /\ UNCHANGED <<tokenizer, token, parser, dom, css, page, clicked, net>>

\* One iteration of the loop of JsRuntime::execute; after the last one
\* execute_js returns
ExecuteStatement ==
    /\ pc = "js"
    /\ js.status = "run"
    /\ LET Evaluated(r) ==
               /\ dom' = r.rt.dom
               /\ js' = [js EXCEPT !.functions = r.rt.functions,
                                   !.envs = r.rt.envs,
                                   !.next = IF r.status = "ok" THEN @ + 1 ELSE @,
                                   !.status = IF r.status # "ok" THEN r.status
                                              ELSE IF js.next = Len(js.body) THEN "done"
                                              ELSE "run",
                                   !.reason = r.reason]
               /\ pc' = IF r.status # "ok" THEN "panic"
                        ELSE IF js.next = Len(js.body) THEN "frame" ELSE "js"
       IN  Evaluated(Eval(js.body[js.next], 1,
                          [NewJsRuntime(dom) EXCEPT !.functions = js.functions,
                                                    !.envs = js.envs], 0))
    /\ UNCHANGED <<tokenizer, token, parser, css, page, clicked, net>>

NextJs == ParseProgram \/ ExecuteStatement
SpecJs == InitJs /\ [][NextJs]_vars


(***************************************************************************)
(* SpecJsParser: JsParser::parse_ast over every sequence of at most        *)
(* MaxJsTokens tokens of a small vocabulary, written out as the text the   *)
(* lexer reads.  The identifier is not the prefix of a reserved word, so   *)
(* the lexer yields a token for each.                                      *)
(***************************************************************************)
MaxJsTokens == 4
JsLexemes ==
    {<<"a">>,
     <<"(">>,
     <<")">>,
     <<";">>,
     <<"{">>,
     <<"}">>,
     <<",">>,
     <<"=">>,
     <<"f","u","n","c","t","i","o","n"," ">>,
     <<"v","a","r"," ">>,
     <<"1">>}
JsTexts == {Concat(lexemes) : lexemes \in SeqsUpTo(JsLexemes, MaxJsTokens)}

InitJsParser ==
    /\ tokenizer = IdleTokenizer
    /\ token = None
    /\ parser = NewParser
    /\ dom = NewWindow
    /\ css = IdleCss
    /\ \E input \in JsTexts : js = NewJs(input)
    /\ page = NewPage
    /\ clicked = None
    /\ net = IdleNet
    /\ pc = "js"

NextJsParser == ParseProgram
SpecJsParser == InitJsParser /\ [][NextJsParser]_vars


(***************************************************************************)
(* SpecSub: the programs `var d=L-R;` for every pair of operands of a      *)
(* small set (numbers, a string literal, an unbound identifier), parsed    *)
(* and executed.                                                           *)
(***************************************************************************)
MaxOperand == 3
SubOperands ==
    {NumToString(n) : n \in 0..MaxOperand} \cup {<<"1","0">>, <<"\"","s","\"">>, <<"x">>}
SubProgram(left, right) ==
    Concat(<<S_var, <<" ","d","=">>, left, <<"-">>, right, <<";">>>>)

InitSub ==
    /\ tokenizer = IdleTokenizer
    /\ token = None
    /\ parser = NewParser
    /\ dom = NewWindow
    /\ css = IdleCss
    /\ \E left \in SubOperands, right \in SubOperands : js = NewJs(SubProgram(left, right))
    /\ page = NewPage
    /\ clicked = None
    /\ net = IdleNet
    /\ pc = "js"

NextSub == ParseProgram \/ ExecuteStatement
SpecSub == InitSub /\ [][NextSub]_vars


(***************************************************************************)
(* SpecScope: programs that declare `a` in the global environment and read *)
(* it from the environment of a call: in the body of the function called   *)
(* ("body"), in the body of a function that the function called calls      *)
(* ("nested"), or as the argument of the call ("argument"); the function   *)
(* called declares its own `a` or not.  Parsed and executed.               *)
(***************************************************************************)
MaxOuter == 3
OuterValues == 1..MaxOuter
\* 0 stands for no declaration of `a` in the function
InnerValues == {0} \cup {MaxOuter + n : n \in 1..3}
ScopeKinds == {"body", "nested", "argument"}

ScopeProgram(kind, outer, inner) ==
    LET shadow == IF inner = 0 THEN <<>>
                  ELSE Concat(<<<<"v","a","r"," ","a","=">>, NumToString(inner), <<";">>>>)
        declared == Concat(<<<<"v","a","r"," ","a","=">>, NumToString(outer), <<";">>>>)
    IN  CASE kind = "body" ->
                Concat(<<declared, <<"f","u","n","c","t","i","o","n"," ","f","(",")","{">>, shadow,
                         <<"r","e","t","u","r","n"," ","a",";","}","v","a","r"," ","r","=","f","(",
          ")",";">>>>)
          [] kind = "nested" ->
                Concat(<<declared, <<"f","u","n","c","t","i","o","n"," ","g","(",")","{","r","e","t","u","r",
          "n"," ","a",";","}","f","u","n","c","t","i","o","n"," ","f","(",")","{">>,
                         shadow, <<"r","e","t","u","r","n"," ","g","(",")",";","}","v","a","r"," ","r","=",
          "f","(",")",";">>>>)
          [] kind = "argument" ->
                Concat(<<declared, <<"f","u","n","c","t","i","o","n"," ","f","(","p",")","{">>, shadow,
                         <<"r","e","t","u","r","n"," ","p",";","}","v","a","r"," ","r","=","f","(",
          "a",")",";">>>>)

InitScope ==
    /\ tokenizer = IdleTokenizer
    /\ token = None
    /\ parser = NewParser
    /\ dom = NewWindow
    /\ css = IdleCss
    /\ \E kind \in ScopeKinds, outer \in OuterValues, inner \in InnerValues :
          js = NewJs(ScopeProgram(kind, outer, inner))
    /\ page = NewPage
    /\ clicked = None
    /\ net = IdleNet
    /\ pc = "js"

NextScope == ParseProgram \/ ExecuteStatement
SpecScope == InitScope /\ [][NextScope]_vars


(***************************************************************************)
(* SpecAtRule: the CSS parser over the stylesheets made of at most         *)
(* MaxSegments segments, each an at-rule (with a block of declarations,    *)
(* with a block of rules, or ended by `;`) or a qualified rule; one step   *)
(* per iteration of consume_list_of_rules.                                 *)
(***************************************************************************)
MaxSegments == 3
At_block ==
    <<"@","m","e","d","i","a","{","a",":","b",";","}">>
At_nested ==
    <<"@","m","e","d","i","a","{","p","{","a",":","b",";","}","}">>
At_statement ==
    <<"@","i","m","p","o","r","t"," ","'","x","'",";">>
Rule_type ==
    <<"p","{","a",":","b",";","}">>
Rule_class ==
    <<".","c","{","a",":","b",";","}">>
Rule_id ==
    <<"#","i","{","a",":","b",";","}">>
AtRuleSegments == {At_block, At_nested, At_statement}
RuleSegments == {Rule_type, Rule_class, Rule_id}
Stylesheets == SeqsUpTo(AtRuleSegments \cup RuleSegments, MaxSegments)

InitAtRule ==
    /\ tokenizer = IdleTokenizer
    /\ token = None
    /\ parser = NewParser
    /\ dom = NewWindow
    /\ \E segments \in Stylesheets : css = NewCssParser(Concat(segments))
    /\ js = IdleJs
    /\ page = NewPage
    /\ clicked = None
    /\ net = IdleNet
    /\ pc = "css"

NextAtRule == ConsumeRule
SpecAtRule == InitAtRule /\ [][NextAtRule]_vars

(***************************************************************************)
(* SpecPage: Page::receive_response on whole pages, character by           *)
(* character: create_frame (the tree builder pulling the tokens from the   *)
(* tokenizer, then the stylesheet), execute_js, set_layout_view and        *)
(* paint_tree.                                                             *)
(***************************************************************************)
\* The page of the style-cascading scenario
E2E4_Page ==
    <<"<","h","t","m","l",">","<","h","e","a","d",">","<","s","t","y","l","e",
      ">","b","o","d","y","{","b","a","c","k","g","r","o","u","n","d","-","c",
      "o","l","o","r",":","#","0","0","f","f","0","0",";","}"," ","p","{","c",
      "o","l","o","r",":","r","e","d",";","}","<","/","s","t","y","l","e",">",
      "<","/","h","e","a","d",">","<","b","o","d","y",">","<","p",">","h","i",
      "<","/","p",">","<","/","b","o","d","y",">","<","/","h","t","m","l",">">>
\* The same page without the rule for body
E2E4_PlainBody ==
    <<"<","h","t","m","l",">","<","h","e","a","d",">","<","s","t","y","l","e",
      ">","p","{","c","o","l","o","r",":","r","e","d",";","}","<","/","s","t",
      "y","l","e",">","<","/","h","e","a","d",">","<","b","o","d","y",">","<",
      "p",">","h","i","<","/","p",">","<","/","b","o","d","y",">","<","/","h",
      "t","m","l",">">>
\* The page of the textContent scenario
E2E6_Page ==
    <<"<","h","t","m","l",">","<","h","e","a","d",">","<","s","c","r","i","p",
      "t",">","v","a","r"," ","e","=","d","o","c","u","m","e","n","t",".","g",
      "e","t","E","l","e","m","e","n","t","B","y","I","d","(","\"","t","\"",
      ")",";"," ","e",".","t","e","x","t","C","o","n","t","e","n","t","=",
      "\"","h","e","l","l","o","\"",";","<","/","s","c","r","i","p","t",">",
      "<","/","h","e","a","d",">","<","b","o","d","y",">","<","p"," ","i","d",
      "=","\"","t","\"",">","x","<","/","p",">","<","/","b","o","d","y",">",
      "<","/","h","t","m","l",">">>
\* The same page with a script that looks for an id no element has
E2E6_OtherId ==
    <<"<","h","t","m","l",">","<","h","e","a","d",">","<","s","c","r","i","p",
      "t",">","v","a","r"," ","e","=","d","o","c","u","m","e","n","t",".","g",
      "e","t","E","l","e","m","e","n","t","B","y","I","d","(","\"","u","\"",
      ")",";"," ","e",".","t","e","x","t","C","o","n","t","e","n","t","=",
      "\"","h","e","l","l","o","\"",";","<","/","s","c","r","i","p","t",">",
      "<","/","h","e","a","d",">","<","b","o","d","y",">","<","p"," ","i","d",
      "=","\"","t","\"",">","x","<","/","p",">","<","/","b","o","d","y",">",
      "<","/","h","t","m","l",">">>

Pages == {E2E4_Page, E2E4_PlainBody, E2E6_Page, E2E6_OtherId}

InitPage ==
    /\ tokenizer = IdleTokenizer
    /\ token = None
    /\ parser = NewParser
    /\ dom = NewWindow
    /\ css = IdleCss
    /\ js = IdleJs
    /\ page = NewPage
    /\ clicked = None
    /\ net = IdleNet
    /\ pc = "new"

\* Page::receive_response up to the first `self.t.next()` of construct_tree
ReceiveResponse ==
    /\ pc = "new"
    /\ \E html \in Pages :
          LET First(r) ==
                  /\ tokenizer' = r.t
                  /\ token' = r.out
                  /\ pc' = IF r.panic THEN "panic" ELSE "tree"
          IN  First(TokenizerNext(NewTokenizer(html)))
    /\ UNCHANGED <<parser, dom, css, js, page, clicked, net>>

\* One iteration of the loop of construct_tree, with the call of
\* `self.t.next()` it makes, or the exit of the loop
ConstructTreeNext ==
    /\ pc = "tree"
    /\ LET Pulled(r, t) ==
               /\ parser' = r.st.parser
               /\ dom' = r.st.dom
               /\ tokenizer' = t.t
               /\ token' = t.out
               /\ pc' = IF t.panic THEN "panic" ELSE "tree"
           Iterated(r) ==
               IF r.advance /\ ~r.panic /\ ~r.ret
               THEN Pulled(r, TokenizerNext(tokenizer))
               ELSE /\ parser' = r.st.parser
                    /\ dom' = r.st.dom
                    /\ pc' = IF r.panic THEN "panic" ELSE IF r.ret THEN "style" ELSE "tree"
                    /\ UNCHANGED <<tokenizer, token>>
       IN  IF token = None
           THEN /\ pc' = "style"
                /\ UNCHANGED <<tokenizer, token, parser, dom>>
           ELSE Iterated(ConstructTreeIter([parser |-> parser, dom |-> dom], token))
    /\ UNCHANGED <<css, js, page, clicked, net>>

\* The rest of Page::create_frame: the stylesheet of the style element
ParseStyle ==
    /\ pc = "style"
    /\ LET Parsed(sheet) ==
               /\ css' = sheet
               /\ page' = [page EXCEPT !.frame = TRUE, !.style = [rules |-> sheet.rules]]
               /\ pc' = IF sheet.status = "done" THEN "script" ELSE "panic"
       IN  Parsed(ParseStylesheet(NewCssParser(GetStyleContent(dom))))
    /\ UNCHANGED <<tokenizer, token, parser, dom, js, clicked, net>>

\* The start of Page::execute_js: get_js_content and JsLexer::new
LoadScript ==
    /\ pc = "script"
    /\ js' = NewJs(GetJsContent(dom))
    /\ pc' = "js"
    /\ UNCHANGED <<tokenizer, token, parser, dom, css, page, clicked, net>>

NextPage ==
    \/ ReceiveResponse \/ ConstructTreeNext \/ ParseStyle \/ LoadScript
    \/ ParseProgram \/ ExecuteStatement \/ SetLayoutView \/ PaintTree
SpecPage == InitPage /\ [][NextPage]_vars


\* One iteration of the loop of construct_tree, with the call of
\* `self.t.next()` it makes, on s = [st, t, tok, status]: the tree builder,
\* the tokenizer, the token of the iteration, and "run", "done" (the loop
\* was left) or "panic"
ConstructTreePull(s) ==
    LET Pulled(r, n) ==
            IF n.panic THEN [s EXCEPT !.st = r.st, !.status = "panic"]
            ELSE [st |-> r.st, t |-> n.t, tok |-> n.out, status |-> "run"]
        Iterated(r) ==
            IF r.panic THEN [s EXCEPT !.st = r.st, !.status = "panic"]
            ELSE IF r.ret THEN [s EXCEPT !.st = r.st, !.status = "done"]
            ELSE IF r.advance THEN Pulled(r, TokenizerNext(s.t))
            ELSE [s EXCEPT !.st = r.st]
    IN  IF s.status # "run" THEN s
        ELSE IF s.tok = None THEN [s EXCEPT !.status = "done"]
        ELSE Iterated(ConstructTreeIter(s.st, s.tok))

\* At most n iterations of that loop: the first half of them, then the rest
\* unless the loop was left
RECURSIVE ConstructTreePulls(_, _)
ConstructTreePulls(s, n) ==
    LET Rest(half) ==
            IF half.status # "run" THEN half ELSE ConstructTreePulls(half, n - n \div 2)
    IN  IF n = 0 THEN s
        ELSE IF n = 1 THEN ConstructTreePull(s)
        ELSE Rest(ConstructTreePulls(s, n \div 2))

\* More iterations than construct_tree makes on html: every call of next()
\* consumes a character or ends the input, and fewer than MaxReprocess
\* iterations in a row keep their token
MaxIterations(html) == MaxReprocess * (Len(html) + 2)

\* HtmlParser::construct_tree over the response body html
ConstructTreeOf(html) ==
    LET First(n) ==
            IF n.panic
            THEN [st |-> [parser |-> NewParser, dom |-> NewWindow], t |-> n.t,
                  tok |-> None, status |-> "panic"]
            ELSE ConstructTreePulls([st |-> [parser |-> NewParser, dom |-> NewWindow],
                                     t |-> n.t, tok |-> n.out, status |-> "run"],
                                    MaxIterations(html))
    IN  First(TokenizerNext(NewTokenizer(html)))

\* JsRuntime::execute from the i-th node of the Program on
RECURSIVE ExecuteFrom(_, _, _)
ExecuteFrom(body, i, rt) ==
    LET Evaluated(r) ==
            IF r.status # "ok" THEN [rt |-> r.rt, panic |-> TRUE]
            ELSE ExecuteFrom(body, i + 1, r.rt)
    IN  IF i > Len(body) THEN [rt |-> rt, panic |-> FALSE]
        ELSE Evaluated(Eval(body[i], 1, rt, 0))

\* Page::execute_js on the DOM d: the DOM the script leaves
ExecuteJsOf(d) ==
    LET Ran(r) == [dom |-> r.rt.dom, panic |-> r.panic]
        Parsed(r) ==
            IF r.status # "ok" THEN [dom |-> d, panic |-> TRUE]
            ELSE Ran(ExecuteFrom(r.node, 1, NewJsRuntime(d)))
    IN  Parsed(ParseAst(GetJsContent(d)))

\* Page::receive_response of the response body html on the page p: the page
\* and the DOM of its frame afterwards
ReceiveResponseOf(p, html) ==
    LET Stop == [page |-> p, dom |-> NewWindow, panic |-> TRUE]
        Painted(d, q) ==
            [page |-> PaintTreeOf(d, SetLayoutViewOf(d, q)), dom |-> d, panic |-> FALSE]
        Scripted(q, e) == IF e.panic THEN Stop ELSE Painted(e.dom, q)
        Styled(d, sheet) ==
            IF sheet.status # "done" THEN Stop
            ELSE Scripted([p EXCEPT !.frame = TRUE, !.style = [rules |-> sheet.rules]],
                          ExecuteJsOf(d))
        Built(tree) ==
            IF tree.status # "done" THEN Stop
            ELSE Styled(tree.st.dom,
                        ParseStylesheet(NewCssParser(GetStyleContent(tree.st.dom))))
    IN  Built(ConstructTreeOf(html))

(***************************************************************************)
(* SpecReload: one Page receiving response after response.  Each response  *)
(* is processed as in SpecPage; on a painted page the user may click, and  *)
(* the next response may arrive.                                           *)
(***************************************************************************)
\* A page whose body is a link
Link_Page ==
    <<"<","h","t","m","l",">","<","h","e","a","d",">","<","/","h","e","a","d",
      ">","<","b","o","d","y",">","<","a"," ","h","r","e","f","=","\"","u",
      "\"",">","x","<","/","a",">","<","/","b","o","d","y",">","<","/","h",
      "t","m","l",">">>
\* A page whose body is not displayed
Hidden_Page ==
    <<"<","h","t","m","l",">","<","h","e","a","d",">","<","s","t","y","l","e",
      ">","b","o","d","y","{","d","i","s","p","l","a","y",":","n","o","n","e",
      ";","}","<","/","s","t","y","l","e",">","<","/","h","e","a","d",">","<",
      "b","o","d","y",">","<","p",">","h","i","<","/","p",">","<","/","b","o",
      "d","y",">","<","/","h","t","m","l",">">>
Responses == Pages \cup {Link_Page, Hidden_Page}
ReloadClicks == {<<8, 10>>}

\* Page::receive_response up to the first `self.t.next()` of construct_tree:
\* create_frame makes a new tokenizer and a new parser with a new window
ReceiveNextResponse ==
    /\ pc \in {"new", "painted"}
    /\ \E html \in Responses :
          LET First(r) ==
                  /\ tokenizer' = r.t
                  /\ token' = r.out
                  /\ pc' = IF r.panic THEN "panic" ELSE "tree"
          IN  First(TokenizerNext(NewTokenizer(html)))
    /\ parser' = NewParser
    /\ dom' = NewWindow
    /\ UNCHANGED <<css, js, page, clicked, net>>

\* Page::clicked on the painted page
ClickedPainted ==
    /\ pc = "painted"
    /\ \E position \in ReloadClicks :
          clicked' = [position |-> position, href |-> PageClicked(dom, page, position)]
    /\ UNCHANGED <<tokenizer, token, parser, dom, css, js, page, net, pc>>

NextReload ==
    \/ ReceiveNextResponse \/ ConstructTreeNext \/ ParseStyle \/ LoadScript
    \/ ParseProgram \/ ExecuteStatement \/ SetLayoutView \/ PaintTree
    \/ ClickedPainted
SpecReload == InitPage /\ [][NextReload]_vars


(***************************************************************************)
(* HTTP response and URL (saba_core/src/http.rs, saba_core/src/url.rs).    *)
(* A function's result is [type |-> "Ok", value], [type |-> "Err", kind],  *)
(* or [type |-> "Panic"].                                                  *)
(***************************************************************************)
ROk(value) == [type |-> "Ok", value |-> value]
RErr(kind) == [type |-> "Err", kind |-> kind]
RPanic == [type |-> "Panic"]

IsWhitespace(c) == c \in {" ", "\n", "\r", "\t"}

\* str::trim_start
RECURSIVE TrimStart(_)
TrimStart(s) == IF s # <<>> /\ IsWhitespace(Head(s)) THEN TrimStart(Tail(s)) ELSE s

\* str::trim
RECURSIVE StrTrim(_)
StrTrim(s) ==
    IF s # <<>> /\ IsWhitespace(s[Len(s)]) THEN StrTrim(SubSeq(s, 1, Len(s) - 1))
    ELSE TrimStart(s)

\* str::replace("\r\n", "\n")
RECURSIVE ReplaceCrLf(_)
ReplaceCrLf(s) ==
    IF s = <<>> THEN s
    ELSE IF Len(s) >= 2 /\ s[1] = "\r" /\ s[2] = "\n"
         THEN <<"\n">> \o ReplaceCrLf(Tail(Tail(s)))
    ELSE <<Head(s)>> \o ReplaceCrLf(Tail(s))

\* str::find: the index of the first occurrence of the pattern, -1 for None
StrFind(s, pattern) ==
    LET hits == {i \in 0..(Len(s) - Len(pattern)) :
                    SubSeq(s, i + 1, i + Len(pattern)) = pattern}
    IN  IF hits = {} THEN -1 ELSE CHOOSE i \in hits : \A j \in hits : i <= j

\* str::split_once
SplitOnce(s, pattern) ==
    LET At(i) ==
            IF i < 0 THEN None
            ELSE [type |-> "Some", left |-> SubSeq(s, 1, i),
                  right |-> SubSeq(s, i + Len(pattern) + 1, Len(s))]
    IN  At(StrFind(s, pattern))

\* str::split(pattern).collect()
RECURSIVE StrSplit(_, _)
StrSplit(s, pattern) ==
    LET Parts(o) == IF o = None THEN <<s>> ELSE <<o.left>> \o StrSplit(o.right, pattern)
    IN  Parts(SplitOnce(s, pattern))

\* str::splitn(2, pattern).collect()
Splitn2(s, pattern) ==
    LET Parts(o) == IF o = None THEN <<s>> ELSE <<o.left, o.right>>
    IN  Parts(SplitOnce(s, pattern))

RECURSIVE DigitsValue(_, _)
DigitsValue(s, acc) ==
    IF s = <<>> THEN acc ELSE DigitsValue(Tail(s), acc * 10 + DigitValue(Head(s)))

\* The digits of str::parse for an unsigned integer, after an optional `+`:
\* the number, -1 for Err.  Inputs here have MaxDigits digits at most, fewer
\* than overflow a u32
MaxDigits == 9
ParseDigits(s) ==
    LET Digits(digits) ==
            IF digits = <<>> \/ Len(digits) > MaxDigits
               \/ \E i \in 1..Len(digits) : ~IsAsciiDigit(digits[i])
            THEN -1
            ELSE DigitsValue(digits, 0)
    IN  Digits(IF s # <<>> /\ Head(s) = "+" THEN Tail(s) ELSE s)

\* str::parse::<u32>()
ParseU32(s) == ParseDigits(s)

\* str::parse::<u16>()
U16_MAX == 65535
ParseU16(s) ==
    LET Value(v) == IF v > U16_MAX THEN -1 ELSE v
    IN  Value(ParseDigits(s))

\* Result::unwrap_or on a parsed number
UnwrapOr(parsed, default) == IF parsed < 0 THEN default ELSE parsed

\* Header::new
NewHeader(name, value) == [name |-> name, value |-> value]

\* The `for header in h.split('\n')` loop of HttpResponse::new from the i-th
\* line on: the headers, or the panic of `splitted_header[1]` out of bounds
RECURSIVE HeadersFrom(_, _, _)
HeadersFrom(lines, i, headers) ==
    LET Pushed(splitted_header) ==
            IF Len(splitted_header) < 2 THEN RPanic
            ELSE HeadersFrom(lines, i + 1,
                     Append(headers, NewHeader(StrTrim(splitted_header[1]),
                                               StrTrim(splitted_header[2]))))
    IN  IF i > Len(lines) THEN ROk(headers) ELSE Pushed(Splitn2(lines[i], <<":">>))

\* HttpResponse::new
HttpResponseNew(raw_response) ==
    LET Built(statuses, headers, body) ==
            IF Len(statuses) < 3 THEN RPanic
            ELSE ROk([version |-> statuses[1],
                      status_code |-> UnwrapOr(ParseU32(statuses[2]), 404),
                      reason |-> statuses[3], headers |-> headers, body |-> body])
        Headed(status_line, headers, body) ==
            IF headers.type = "Panic" THEN RPanic
            ELSE Built(StrSplit(status_line, <<" ">>), headers.value, body)
        Remaining(status_line, remaining, o) ==
            IF o = None THEN Headed(status_line, ROk(<<>>), remaining)
            ELSE Headed(status_line, HeadersFrom(StrSplit(o.left, <<"\n">>), 1, <<>>), o.right)
        Line(o) ==
            IF o = None THEN RErr("Network")
            ELSE Remaining(o.left, o.right, SplitOnce(o.right, <<"\n", "\n">>))
    IN  Line(SplitOnce(ReplaceCrLf(TrimStart(raw_response)), <<"\n">>))

\* HttpResponse::header_value
HeaderValue(response, name) ==
    LET hits == {i \in 1..Len(response.headers) : response.headers[i].name = name}
    IN  IF hits = {} THEN RErr("")
        ELSE ROk(response.headers[CHOOSE i \in hits : \A j \in hits : i <= j].value)

\* Url::new
NewUrl(url) == [url |-> url, host |-> <<>>, port |-> <<>>, path |-> <<>>, searchpart |-> <<>>]

S_http_scheme == <<"h", "t", "t", "p", ":", "/", "/">>
S_Location == <<"L", "o", "c", "a", "t", "i", "o", "n">>
S_80 == <<"8", "0">>

\* Url::is_http
IsHttp(u) == StrFind(u.url, S_http_scheme) >= 0

\* str::trim_start_matches
RECURSIVE TrimStartMatches(_, _)
TrimStartMatches(s, prefix) ==
    IF Len(s) >= Len(prefix) /\ SubSeq(s, 1, Len(prefix)) = prefix
    THEN TrimStartMatches(SubSeq(s, Len(prefix) + 1, Len(s)), prefix)
    ELSE s

\* `self.url.trim_start_matches("http://").splitn(2, "/").collect()`
UrlParts(u) == Splitn2(TrimStartMatches(u.url, S_http_scheme), <<"/">>)

\* Url::extract_host
ExtractHost(u) ==
    LET Host(part, index) == IF index >= 0 THEN SubSeq(part, 1, index) ELSE part
        Part(part) == Host(part, StrFind(part, <<":">>))
    IN  Part(UrlParts(u)[1])

\* Url::extract_port
ExtractPort(u) ==
    LET Port(part, index) == IF index >= 0 THEN SubSeq(part, index + 2, Len(part)) ELSE S_80
        Part(part) == Port(part, StrFind(part, <<":">>))
    IN  Part(UrlParts(u)[1])

\* Url::extract_path
ExtractPath(u) ==
    LET Path(url_parts) ==
            IF Len(url_parts) < 2 THEN <<>> ELSE Splitn2(url_parts[2], <<"?">>)[1]
    IN  Path(UrlParts(u))

\* Url::extract_searchpart
ExtractSearchpart(u) ==
    LET Query(path_and_searchpart) ==
            IF Len(path_and_searchpart) < 2 THEN <<>> ELSE path_and_searchpart[2]
        Search(url_parts) ==
            IF Len(url_parts) < 2 THEN <<>> ELSE Query(Splitn2(url_parts[2], <<"?">>))
    IN  Search(UrlParts(u))

\* Url::parse
UrlParse(u) ==
    IF ~IsHttp(u) THEN RErr("")
    ELSE ROk([u EXCEPT !.host = ExtractHost(u), !.port = ExtractPort(u),
                       !.path = ExtractPath(u), !.searchpart = ExtractSearchpart(u)])

(***************************************************************************)
(* SpecHandleUrl: handle_url (saba/src/main.rs) on one URL.  The server's  *)
(* bytes are the environment's choice: HttpClient::get either fails in the *)
(* network or hands what it read to HttpResponse::new.                     *)
(***************************************************************************)

\* the default port and the empty path
Url_host == <<"h","t","t","p",":","/","/","a">>

Url_root == <<"h","t","t","p",":","/","/","a","/">>

Url_port == <<"h","t","t","p",":","/","/","a",":","8">>

Url_path == <<"h","t","t","p",":","/","/","a",":","8","/","p">>

Url_query == <<"h","t","t","p",":","/","/","a","/","p","?","q">>

Url_other == <<"h","t","t","p",":","/","/","b",":","8","0","/","x">>

Url_deep ==
    <<"h","t","t","p",":","/","/","c",":","1","/","p","/","q">>

Url_plus == <<"h","t","t","p",":","/","/","a",":","+","8","/">>

Url_max ==
    <<"h","t","t","p",":","/","/","a",":","6","5","5","3","5","/">>

\* a port that is no u16
Url_overflow ==
    <<"h","t","t","p",":","/","/","a",":","6","5","5","3","6","/">>

Url_letters == <<"h","t","t","p",":","/","/","a",":","x","/">>

\* no http:// in it
Url_https == <<"h","t","t","p","s",":","/","/","a","/">>

Url_bare == <<"a">>

Urls ==
    {Url_host, Url_root, Url_port, Url_path, Url_query, Url_other, Url_deep,
     Url_plus, Url_max, Url_overflow, Url_letters, Url_https, Url_bare}

Raw_200 ==
    <<"H","T","T","P","/","1",".","1"," ","2","0","0"," ","O","K","\n","\n",
      "x">>

\* a redirect
Raw_302_location ==
    <<"H","T","T","P","/","1",".","1"," ","3","0","2"," ","F","o","u","n","d",
      "\n","L","o","c","a","t","i","o","n",":"," ","h","t","t","p",":","/",
      "/","b",":","8","/","p","\n","\n">>

Raw_302_crlf ==
    <<"H","T","T","P","/","1",".","1"," ","3","0","2"," ","F","o","u","n","d",
      "\r","\n","L","o","c","a","t","i","o","n",":"," ","h","t","t","p",":",
      "/","/","b","\r","\n","\r","\n">>

\* 302 without any header
Raw_302_bare ==
    <<"H","T","T","P","/","1",".","1"," ","3","0","2"," ","F","o","u","n","d",
      "\n","\n">>

\* 302 without a Location header
Raw_302_date ==
    <<"H","T","T","P","/","1",".","1"," ","3","0","2"," ","F","o","u","n","d",
      "\n","D","a","t","e",":"," ","x","\n","\n">>

\* a Location header with another status
Raw_301_location ==
    <<"H","T","T","P","/","1",".","1"," ","3","0","1"," ","M","o","v","e","d",
      "\n","L","o","c","a","t","i","o","n",":"," ","h","t","t","p",":","/",
      "/","b",":","8","/","p","\n","\n">>

Raw_404 ==
    <<"H","T","T","P","/","1",".","1"," ","4","0","4"," ","N","o","t","\n",
      "\n">>

\* a status code that is no number
Raw_status_word ==
    <<"H","T","T","P","/","1",".","1"," ","a","b","c"," ","O","K","\n","\n">>

\* no line break at all
Raw_no_line ==
    <<"H","T","T","P","/","1",".","1"," ","2","0","0"," ","O","K">>

\* a status line of one word
Raw_short_status ==
    <<"H","T","T","P","/","1",".","1","\n","\n">>

\* a header line without a colon
Raw_no_colon ==
    <<"H","T","T","P","/","1",".","1"," ","2","0","0"," ","O","K","\n","D",
      "a","t","e","\n","\n">>

RawResponses ==
    {Raw_200, Raw_302_location, Raw_302_crlf, Raw_302_bare,
     Raw_302_date, Raw_301_location, Raw_404, Raw_status_word,
     Raw_no_line, Raw_short_status, Raw_no_colon}

InitHandleUrl ==
    /\ tokenizer = IdleTokenizer
    /\ token = None
    /\ parser = NewParser
    /\ dom = NewWindow
    /\ css = IdleCss
    /\ js = IdleJs
    /\ page = NewPage
    /\ clicked = None
    /\ net \in {[IdleNet EXCEPT !.input = url] : url \in Urls}
    /\ pc = "url"

\* The arguments of one HttpClient::get call
GetRequest(host, port, path) == [host |-> host, port |-> port, path |-> path]

\* `client.get(url.host(), url.port().parse::<u16>().expect(..), url.path())`
\* up to the call: the request is sent, or expect panics
CallGet(url) ==
    LET Port(port) ==
            IF port < 0 THEN /\ net' = net
                             /\ pc' = "panic"
            ELSE /\ net' = [net EXCEPT !.requests = Append(@, GetRequest(url.host, port, url.path))]
                 /\ pc' = "get"
    IN  Port(ParseU16(url.port))

\* handle_url from its entry to the first client.get call
ParseUrl ==
    /\ pc = "url"
    /\ LET Parsed(r) ==
               IF r.type = "Err"
               THEN /\ net' = [net EXCEPT !.result = RErr("UnexpectedInput")]
                    /\ pc' = "returned"
               ELSE CallGet(r.value)
       IN  Parsed(UrlParse(NewUrl(net.input)))
    /\ UNCHANGED <<tokenizer, token, parser, dom, css, js, page, clicked>>

\* HttpClient::get returns to handle_url, which runs the arm of its match: the
\* first call's response is returned or followed, the second call's returned
ClientGet ==
    /\ pc = "get"
    /\ \E failed \in BOOLEAN, raw \in RawResponses :
           LET Returns(got, result) ==
                   /\ net' = [net EXCEPT !.responses = Append(@, got), !.result = result]
                   /\ pc' = "returned"
               Follow(got, location) ==
                   LET Port(redirect_parsed_url, port) ==
                           IF port < 0
                           THEN /\ net' = [net EXCEPT !.responses = Append(@, got)]
                                /\ pc' = "panic"
                           ELSE /\ net' = [net EXCEPT
                                              !.responses = Append(@, got),
                                              !.requests = Append(@,
                                                  GetRequest(redirect_parsed_url.host, port,
                                                             redirect_parsed_url.path))]
                                /\ pc' = "get"
                       Redirect(redirect_parsed_url) ==
                           Port(redirect_parsed_url, ParseU16(redirect_parsed_url.port))
                   IN  Redirect(NewUrl(location))
               Location(got, value) ==
                   IF value.type = "Err" THEN Returns(got, got) ELSE Follow(got, value.value)
               First(got) ==
                   IF got.value.status_code = 302
                   THEN Location(got, HeaderValue(got.value, S_Location))
                   ELSE Returns(got, got)
               Got(got) ==
                   IF got.type = "Panic" THEN /\ net' = net
                                              /\ pc' = "panic"
                   ELSE IF got.type = "Err" THEN Returns(got, RErr("Network"))
                   ELSE IF Len(net.requests) = 1 THEN First(got)
                   ELSE Returns(got, got)
           IN  Got(IF failed THEN RErr("Network") ELSE HttpResponseNew(raw))
    /\ UNCHANGED <<tokenizer, token, parser, dom, css, js, page, clicked>>

NextHandleUrl == ParseUrl \/ ClientGet

SpecHandleUrl == InitHandleUrl /\ [][NextHandleUrl]_vars

(***************************************************************************)
(* SpecHttp: HttpResponse::new on one raw response.                        *)
(***************************************************************************)
MaxRawLen == 4
RawChars == {"H", "2", " ", ":", "\n", "\r"}
RawInputs == SeqsUpTo(RawChars, MaxRawLen) \cup RawResponses

InitHttp ==
    /\ tokenizer = IdleTokenizer
    /\ token = None
    /\ parser = NewParser
    /\ dom = NewWindow
    /\ css = IdleCss
    /\ js = IdleJs
    /\ page = NewPage
    /\ clicked = None
    /\ net \in {[IdleNet EXCEPT !.input = raw_response] : raw_response \in RawInputs}
    /\ pc = "raw"

\* HttpResponse::new
ParseResponse ==
    /\ pc = "raw"
    /\ LET Got(got) ==
               IF got.type = "Panic" THEN /\ net' = net
                                          /\ pc' = "panic"
               ELSE /\ net' = [net EXCEPT !.result = got]
                    /\ pc' = "returned"
       IN  Got(HttpResponseNew(net.input))
    /\ UNCHANGED <<tokenizer, token, parser, dom, css, js, page, clicked>>

NextHttp == ParseResponse

SpecHttp == InitHttp /\ [][NextHttp]_vars


(***************************************************************************)
(* SpecTree: HtmlParser::construct_tree over the token sequences of short  *)
(* bodies made of two kinds of element and text.  One step per iteration   *)
(* of its loop.                                                            *)
(***************************************************************************)
MaxTreeTokens == 5
TreeTokens ==
    {TokStartTag(t, FALSE, <<>>) : t \in {S_p, S_a}}
    \cup {TokEndTag(t) : t \in {S_p, S_a}}
    \cup {TokChar("x"), TokEof}

\* `self.t.next()` of the tree builder: any token, or the end of the sequence
NextTreeTokens == IF tokenizer.pos < MaxTreeTokens THEN TreeTokens \cup {None} ELSE {None}

InitTree ==
    /\ tokenizer = [IdleTokenizer EXCEPT !.pos = 1]
    /\ token \in TreeTokens \cup {None}
    /\ parser = NewParser
    /\ dom = NewWindow
    /\ css = IdleCss
    /\ js = IdleJs
    /\ page = NewPage
    /\ clicked = None
    /\ net = IdleNet
    /\ pc = "tree"

\* One iteration of the loop of construct_tree, or its exit
ConstructTreeToken ==
    /\ pc = "tree"
    /\ LET Stepped(r) ==
               /\ parser' = r.st.parser
               /\ dom' = r.st.dom
               /\ pc' = IF r.panic THEN "panic" ELSE IF r.ret THEN "window" ELSE "tree"
               /\ IF r.advance /\ ~r.panic /\ ~r.ret
                  THEN /\ \E t \in NextTreeTokens : token' = t
                       /\ tokenizer' = [tokenizer EXCEPT !.pos = @ + 1]
                  ELSE UNCHANGED <<tokenizer, token>>
       IN  IF token = None
           THEN /\ pc' = "window"
                /\ UNCHANGED <<tokenizer, token, parser, dom>>
           ELSE Stepped(ConstructTreeIter([parser |-> parser, dom |-> dom], token))
    /\ UNCHANGED <<css, js, page, clicked, net>>

NextTree == ConstructTreeToken

SpecTree == InitTree /\ [][NextTree]_vars


(***************************************************************************)
(* SpecHtml: HtmlParser::construct_tree on the tokenizer of an HTML text:  *)
(* at most MaxHtmlSegments pieces of markup and character data in a row,   *)
(* or one style or script element around at most MaxRawText characters.    *)
(* One step per iteration of the loop, with the call of next() it makes.   *)
(***************************************************************************)
MaxHtmlSegments == 4
MaxRawText == 3
Seg_x == <<"x">>
Seg_space == <<" ">>
Seg_p == <<"<","p",">">>
Seg_end_p == <<"<","/","p",">">>
Seg_a == <<"<","a",">">>
Seg_div == <<"<","d","i","v",">">>
Seg_html == <<"<","h","t","m","l",">">>
Seg_head == <<"<","h","e","a","d",">">>
Seg_body == <<"<","b","o","d","y",">">>
HtmlSegments ==
    {Seg_x, Seg_space, Seg_p, Seg_end_p, Seg_a, Seg_div, Seg_html, Seg_head, Seg_body}
RawTextChars == {"a", " ", "<", ">"}

\* `<TAG>content</TAG>`
RawTextElement(tag, content) ==
    <<"<">> \o tag \o <<">">> \o content \o <<"<", "/">> \o tag \o <<">">>

HtmlTexts ==
    {Concat(segments) : segments \in SeqsUpTo(HtmlSegments, MaxHtmlSegments)}
    \cup {RawTextElement(tag, content) :
              tag \in {S_style, S_script}, content \in SeqsUpTo(RawTextChars, MaxRawText)}

\* HtmlParser::new(HtmlTokenizer::new(html))
InitHtml ==
    /\ \E html \in HtmlTexts : tokenizer = NewTokenizer(html)
    /\ token = None
    /\ parser = NewParser
    /\ dom = NewWindow
    /\ css = IdleCss
    /\ js = IdleJs
    /\ page = NewPage
    /\ clicked = None
    /\ net = IdleNet
    /\ pc = "new"

\* `let mut token = self.t.next()` of construct_tree
ConstructTreeFirst ==
    /\ pc = "new"
    /\ LET First(r) ==
               /\ tokenizer' = r.t
               /\ token' = r.out
               /\ pc' = IF r.panic THEN "panic" ELSE "tree"
       IN  First(TokenizerNext(tokenizer))
    /\ UNCHANGED <<parser, dom, css, js, page, clicked, net>>

NextHtml == ConstructTreeFirst \/ ConstructTreeNext

SpecHtml == InitHtml /\ [][NextHtml]_vars


(***************************************************************************)
(* SpecCascade: Page over style texts made of at most MaxCascadeRules      *)
(* rules that select `p` by type, class and id and declare color,          *)
(* background-color and display, some twice; create_frame,                 *)
(* set_layout_view and paint_tree run in turn.                             *)
(***************************************************************************)
MaxCascadeRules == 3
S_i == <<"i">>
S_red == <<"r","e","d">>
S_blue == <<"b","l","u","e">>
S_lime == <<"l","i","m","e">>
S_green == <<"g","r","e","e","n">>
S_yellow == <<"y","e","l","l","o","w">>

\* The colour of a name of ColorTable
NamedColor(name) == ColorTable[CHOOSE i \in 1..Len(ColorTable) : ColorTable[i].name = name]

\* A rule as written in the style text: its text, its selector, and the value
\* each of its declarations gives, in source order
SourceRule(text, selector, declarations) ==
    [text |-> text, selector |-> selector, declarations |-> declarations]
Gives(property, value) == [property |-> property, value |-> value]

\* `p{color:red;}`
Rule_p_red ==
    SourceRule(<<"p","{","c","o","l","o","r",":","r","e","d",";","}">>,
                TypeSelector(S_p),
                <<Gives(S_color, NamedColor(S_red))>>)
\* `.h{color:blue;}`
Rule_h_blue ==
    SourceRule(<<".","h","{","c","o","l","o","r",":","b","l","u","e",";","}">>,
                ClassSelector(S_h),
                <<Gives(S_color, NamedColor(S_blue))>>)
\* `#i{color:lime;}`
Rule_i_lime ==
    SourceRule(<<"#","i","{","c","o","l","o","r",":","l","i","m","e",";","}">>,
                IdSelector(S_i),
                <<Gives(S_color, NamedColor(S_lime))>>)
\* `p{color:red;color:#008000;}`
Rule_p_twice ==
    SourceRule(<<"p","{","c","o","l","o","r",":","r","e","d",";","c","o","l","o","r",":",
                  "#","0","0","8","0","0","0",";","}">>,
                TypeSelector(S_p),
                <<Gives(S_color, NamedColor(S_red)), Gives(S_color, NamedColor(S_green))>>)
\* `p{background-color:yellow;display:inline;}`
Rule_p_inline ==
    SourceRule(<<"p","{","b","a","c","k","g","r","o","u","n","d","-","c","o","l","o","r",
                  ":","y","e","l","l","o","w",";","d","i","s","p","l","a","y",":","i","n",
                  "l","i","n","e",";","}">>,
                TypeSelector(S_p),
                <<Gives(S_background_color, NamedColor(S_yellow)), Gives(S_display, "Inline")>>)
\* `p{display:none;}`
Rule_p_none ==
    SourceRule(<<"p","{","d","i","s","p","l","a","y",":","n","o","n","e",";","}">>,
                TypeSelector(S_p),
                <<Gives(S_display, "DisplayNone")>>)
\* `.h{background-color:#ff0000;display:block;}`
Rule_h_block ==
    SourceRule(<<".","h","{","b","a","c","k","g","r","o","u","n","d","-","c","o","l","o",
                  "r",":","#","f","f","0","0","0","0",";","d","i","s","p","l","a","y",":",
                  "b","l","o","c","k",";","}">>,
                ClassSelector(S_h),
                <<Gives(S_background_color, NamedColor(S_red)), Gives(S_display, "Block")>>)

SourceRules == {Rule_p_red, Rule_h_blue, Rule_i_lime, Rule_p_twice, Rule_p_inline, Rule_p_none, Rule_h_block}

\* The style texts: every sequence of at most MaxCascadeRules written rules
StyleTextOf(rules) == Concat([k \in 1..Len(rules) |-> rules[k].text])

\* The bodies `<p class="h" id="i">x</p><a href="u">x</a>` and `<p>x</p><p class="h">x</p>`
CascadeBodies ==
    {<<TokStartTag(S_p, FALSE, <<Attr(S_class, S_h), Attr(S_id, S_i)>>), TokChar("x"), TokEndTag(S_p),
       TokStartTag(S_a, FALSE, <<Attr(S_href, S_u)>>), TokChar("x"), TokEndTag(S_a)>>,
     <<TokStartTag(S_p, FALSE, <<>>), TokChar("x"), TokEndTag(S_p),
       TokStartTag(S_p, FALSE, <<Attr(S_class, S_h)>>), TokChar("x"), TokEndTag(S_p)>>}

\* Page::create_frame on a page with one of the style texts
CreateFrameCascade ==
    /\ pc = "new"
    /\ \E rules \in SeqsUpTo(SourceRules, MaxCascadeRules), body \in CascadeBodies :
          CreateFrameFrom(PageTokens(StyleTextOf(rules), body))
    /\ UNCHANGED <<tokenizer, token, js, clicked, net>>

NextCascade == CreateFrameCascade \/ SetLayoutView \/ PaintTree
SpecCascade == InitLayout /\ [][NextCascade]_vars


(***************************************************************************)
(* SpecDefaults: Page over style texts made of at most MaxDefaultRules     *)
(* rules whose declarations of color, background-color and display give a  *)
(* value the style application recognises or one it does not;              *)
(* create_frame, set_layout_view and paint_tree run in turn.               *)
(***************************************************************************)
MaxDefaultRules == 2

\* Whether a written declaration gives a value of the closed lists
Recognised == [type |-> "Recognised"]
Unrecognised == [type |-> "Unrecognised"]

\* `p{color:foo;}`
Rule_p_color_foo ==
    SourceRule(<<"p","{","c","o","l","o","r",":","f","o","o",";","}">>,
               TypeSelector(S_p),
               <<Gives(S_color, Unrecognised)>>)
\* `p{background-color:foo;}`
Rule_p_background_foo ==
    SourceRule(<<"p","{","b","a","c","k","g","r","o","u","n","d","-","c","o","l","o","r",
                 ":","f","o","o",";","}">>,
               TypeSelector(S_p),
               <<Gives(S_background_color, Unrecognised)>>)
\* `p{display:foo;}`
Rule_p_display_foo ==
    SourceRule(<<"p","{","d","i","s","p","l","a","y",":","f","o","o",";","}">>,
               TypeSelector(S_p),
               <<Gives(S_display, Unrecognised)>>)
\* `a{display:foo;}`
Rule_a_display_foo ==
    SourceRule(<<"a","{","d","i","s","p","l","a","y",":","f","o","o",";","}">>,
               TypeSelector(S_a),
               <<Gives(S_display, Unrecognised)>>)
\* `p{color:#12;}`
Rule_p_color_hash ==
    SourceRule(<<"p","{","c","o","l","o","r",":","#","1","2",";","}">>,
               TypeSelector(S_p),
               <<Gives(S_color, Unrecognised)>>)
\* `p{color:green;}`
Rule_p_green ==
    SourceRule(<<"p","{","c","o","l","o","r",":","g","r","e","e","n",";","}">>,
               TypeSelector(S_p),
               <<Gives(S_color, Recognised)>>)
\* `p{display:block;}`
Rule_p_block ==
    SourceRule(<<"p","{","d","i","s","p","l","a","y",":","b","l","o","c","k",";","}">>,
               TypeSelector(S_p),
               <<Gives(S_display, Recognised)>>)

DefaultRules == {Rule_p_color_foo,
                 Rule_p_background_foo,
                 Rule_p_display_foo,
                 Rule_a_display_foo,
                 Rule_p_color_hash,
                 Rule_p_green,
                 Rule_p_block}

\* Page::create_frame on a page with one of these style texts
CreateFrameDefaults ==
    /\ pc = "new"
    /\ \E rules \in SeqsUpTo(DefaultRules, MaxDefaultRules), body \in CascadeBodies :
          CreateFrameFrom(PageTokens(StyleTextOf(rules), body))
    /\ UNCHANGED <<tokenizer, token, js, clicked, net>>

NextDefaults == CreateFrameDefaults \/ SetLayoutView \/ PaintTree
SpecDefaults == InitLayout /\ [][NextDefaults]_vars


(***************************************************************************)
(* SpecFrames: programs that call a function with arguments, assign to a   *)
(* variable, declare a function twice, declare a variable again or return *)
(* from a function body, with the Numbers v and w of 1..MaxFrameValue      *)
(* written in them; the outcome is left in the global variable `r`.        *)
(* Parsed and executed.                                                    *)
(***************************************************************************)
MaxFrameValue == 3
FrameValues == 1..MaxFrameValue
FrameKinds ==
    {"param",
     "param_bound_outside",
     "two_params",
     "assign_same",
     "assign_outer",
     "function_twice",
     "var_twice",
     "var_inner",
     "return_last",
     "return_twice",
     "return_then_expression"}

FrameProgram(kind, v, w) ==
    LET V == NumToString(v)
        W == NumToString(w)
    IN  CASE \* a call with one argument: `function f(p){return p;}var r=f(V);`
             kind = "param" ->
                Concat(<<<<"f","u","n","c","t","i","o","n"," ","f","(","p",")","{","r","e","t","u",
                          "r","n"," ","p",";","}","v","a","r"," ","r","=","f","(">>,
                         V,
                         <<")",";">>>>)
          [] \* the parameter's name is bound in the global environment: `var p=W;function f(p){return p;}var r=f(V);`
             kind = "param_bound_outside" ->
                Concat(<<<<"v","a","r"," ","p","=">>,
                         W,
                         <<";","f","u","n","c","t","i","o","n"," ","f","(","p",")","{","r","e","t",
                          "u","r","n"," ","p",";","}","v","a","r"," ","r","=","f","(">>,
                         V,
                         <<")",";">>>>)
          [] \* a call with two arguments: `function f(p,q){return p+q;}var r=f(V,W);`
             kind = "two_params" ->
                Concat(<<<<"f","u","n","c","t","i","o","n"," ","f","(","p",",","q",")","{","r","e",
                          "t","u","r","n"," ","p","+","q",";","}","v","a","r"," ","r","=","f","(">>,
                         V,
                         <<",">>,
                         W,
                         <<")",";">>>>)
          [] \* an assignment in the frame that holds x: `var x=W;x=V;var r=x;`
             kind = "assign_same" ->
                Concat(<<<<"v","a","r"," ","x","=">>,
                         W,
                         <<";","x","=">>,
                         V,
                         <<";","v","a","r"," ","r","=","x",";">>>>)
          [] \* an assignment in the frame of a call, x held by the global one: `var x=W;function f(){x=V;return 0;}f();var r=x;`
             kind = "assign_outer" ->
                Concat(<<<<"v","a","r"," ","x","=">>,
                         W,
                         <<";","f","u","n","c","t","i","o","n"," ","f","(",")","{","x","=">>,
                         V,
                         <<";","r","e","t","u","r","n"," ","0",";","}","f","(",")",";","v","a","r",
                          " ","r","=","x",";">>>>)
          [] \* two declarations of f, then a call: `function f(){return V;}function f(){return W;}var r=f();`
             kind = "function_twice" ->
                Concat(<<<<"f","u","n","c","t","i","o","n"," ","f","(",")","{","r","e","t","u","r",
                          "n"," ">>,
                         V,
                         <<";","}","f","u","n","c","t","i","o","n"," ","f","(",")","{","r","e","t",
                          "u","r","n"," ">>,
                         W,
                         <<";","}","v","a","r"," ","r","=","f","(",")",";">>>>)
          [] \* x declared again in the same frame: `var x=W;var x=V;var r=x;`
             kind = "var_twice" ->
                Concat(<<<<"v","a","r"," ","x","=">>,
                         W,
                         <<";","v","a","r"," ","x","=">>,
                         V,
                         <<";","v","a","r"," ","r","=","x",";">>>>)
          [] \* x declared in the frame of a call, bound in the global one: `var x=W;function f(){var x=V;return x;}var r=f();`
             kind = "var_inner" ->
                Concat(<<<<"v","a","r"," ","x","=">>,
                         W,
                         <<";","f","u","n","c","t","i","o","n"," ","f","(",")","{","v","a","r"," ",
                          "x","=">>,
                         V,
                         <<";","r","e","t","u","r","n"," ","x",";","}","v","a","r"," ","r","=","f",
                          "(",")",";">>>>)
          [] \* a return statement that ends the body: `function f(){W;return V;}var r=f();`
             kind = "return_last" ->
                Concat(<<<<"f","u","n","c","t","i","o","n"," ","f","(",")","{">>,
                         W,
                         <<";","r","e","t","u","r","n"," ">>,
                         V,
                         <<";","}","v","a","r"," ","r","=","f","(",")",";">>>>)
          [] \* a return statement followed by another: `function f(){return V;return W;}var r=f();`
             kind = "return_twice" ->
                Concat(<<<<"f","u","n","c","t","i","o","n"," ","f","(",")","{","r","e","t","u","r",
                          "n"," ">>,
                         V,
                         <<";","r","e","t","u","r","n"," ">>,
                         W,
                         <<";","}","v","a","r"," ","r","=","f","(",")",";">>>>)
          [] \* a return statement followed by an expression statement: `function f(){return V;W;}var r=f();`
             kind = "return_then_expression" ->
                Concat(<<<<"f","u","n","c","t","i","o","n"," ","f","(",")","{","r","e","t","u","r",
                          "n"," ">>,
                         V,
                         <<";">>,
                         W,
                         <<";","}","v","a","r"," ","r","=","f","(",")",";">>>>)

InitFrames ==
    /\ tokenizer = IdleTokenizer
    /\ token = None
    /\ parser = NewParser
    /\ dom = NewWindow
    /\ css = IdleCss
    /\ \E kind \in FrameKinds, v \in FrameValues, w \in FrameValues :
          js = NewJs(FrameProgram(kind, v, w))
    /\ page = NewPage
    /\ clicked = None
    /\ net = IdleNet
    /\ pc = "js"

NextFrames == ParseProgram \/ ExecuteStatement
SpecFrames == InitFrames /\ [][NextFrames]_vars


(***************************************************************************)
(* SpecJsLexer: JsLexer::next over every text made of at most              *)
(* MaxLexemes words and separators of a pool that holds the reserved words *)
(* `var` and `return`, words that begin with one, and single letters (so   *)
(* that concatenations give further words).  Here `js` is the lexer (its   *)
(* input and position) and `token` the token the last call returned.       *)
(***************************************************************************)
MaxLexemes == 3
LexerWords ==
    {<<"v","a","r">>,
     <<"v","a","r","a">>,
     <<"r","e","t","u","r","n">>,
     <<"r","e","t","u","r","n","x">>,
     <<"a">>,
     <<"v">>,
     <<"f">>,
     <<"_">>,
     <<" ">>,
     <<";">>,
     <<"1">>}
LexerTexts == {Concat(words) : words \in SeqsUpTo(LexerWords, MaxLexemes)}

\* JsLexer::new
NewJsLexer(input) == [pos |-> 0, input |-> input]

InitJsLexer ==
    /\ tokenizer = IdleTokenizer
    /\ token = None
    /\ parser = NewParser
    /\ dom = NewWindow
    /\ css = IdleCss
    /\ \E input \in LexerTexts : js = NewJsLexer(input)
    /\ page = NewPage
    /\ clicked = None
    /\ net = IdleNet
    /\ pc = "lex"

\* One call of JsLexer::next: a token, None at the end of the input, or a
\* panic
LexerNext ==
    /\ pc = "lex"
    /\ LET Returned(r) ==
               /\ token' = r.tok
               /\ js' = [js EXCEPT !.pos = r.pos]
               /\ pc' = IF r.panic THEN "panic" ELSE IF r.tok = None THEN "end" ELSE "lex"
       IN  Returned(JsNext(js.input, js.pos))
    /\ UNCHANGED <<tokenizer, parser, dom, css, page, clicked, net>>

NextJsLexer == LexerNext
SpecJsLexer == InitJsLexer /\ [][NextJsLexer]_vars


(***************************************************************************)
(* SpecAttributes: the HTML tokenizer over the texts `<a b=VALUE>` for     *)
(* every VALUE of at most MaxUnquoted characters among a letter, `/`, the  *)
(* space, the newline and `>`; one step per call of next().                *)
(***************************************************************************)
MaxUnquoted == 3
UnquotedChars == {"u", "/", " ", "\n", ">"}
AttributeText(value) == <<"<", "a", " ", "b", "=">> \o value \o <<">">>

InitAttributes ==
    /\ \E value \in SeqsUpTo(UnquotedChars, MaxUnquoted) :
          tokenizer = NewTokenizer(AttributeText(value))
    /\ token = None
    /\ parser = NewParser
    /\ dom = NewWindow
    /\ css = IdleCss
    /\ js = IdleJs
    /\ page = NewPage
    /\ clicked = None
    /\ net = IdleNet
    /\ pc = "next"

NextAttributes == TokNext
SpecAttributes == InitAttributes /\ [][NextAttributes]_vars


(***************************************************************************)
(* SpecUnicode: Page over the bodies `<TAG>TEXT</TAG>` for the tags p, h2  *)
(* and h1 and every text of at most MaxCodePoints characters among `A`     *)
(* and characters of two, three and four bytes; create_frame,              *)
(* set_layout_view and paint_tree run in turn.                             *)
(***************************************************************************)
MaxCodePoints == 3
CodePoints == {"A", C_e_acute, C_hiragana_a, C_grinning_face}
UnicodeTexts == SeqsUpTo(CodePoints, MaxCodePoints) \ {<<>>}

\* Page::create_frame on the response of one text
CreateUnicodeFrame ==
    /\ pc = "new"
    /\ \E tag \in TextTags, text \in UnicodeTexts :
          CreateFrameFrom(PageTokens(<<>>, TextBody(tag, text)))
    /\ UNCHANGED <<tokenizer, token, js, clicked, net>>

NextUnicode == CreateUnicodeFrame \/ SetLayoutView \/ PaintTree
SpecUnicode == InitLayout /\ [][NextUnicode]_vars


(***************************************************************************)
(* Claims                                                                  *)
(***************************************************************************)
\* C1: every call of the HTML tokenizer's next() returns a token or the end
\* of the sequence and never raises an error, whatever the input, including
\* an input that ends inside a tag.
C1_NextNeverPanics ==
    /\ pc # "panic"
    /\ pc = "eos" => tokenizer.pos >= Len(tokenizer.input)

\* C2: construct_tree never aborts, whatever the token sequence, including
\* an end tag with no matching open element.
C2_ConstructTreeNeverAborts == pc \in {"tree", "window"}

\* C3: tokenizing and parsing any style text completes without an abort.
C3_CssNeverAborts == css.status \notin {"panic", "hang"}


\* The display that cascading and defaulting resolve for DOM node n under
\* the page's stylesheet (display is never inherited)
ResolvedDisplay(n) ==
    Defaulting(CascadeRules(dom[n], NewComputedStyle, page.style.rules), dom[n], None).display

\* Node n or one of its DOM ancestors resolves to display:none
RECURSIVE UnderDisplayNone(_)
UnderDisplayNone(n) ==
    n # 0 /\ (ResolvedDisplay(n) = "DisplayNone" \/ UnderDisplayNone(dom[n].parent))

LaidOut == pc \in {"layout", "painted"}

\* The rectangle of layout object o contains the position, borders included
Contains(o, position) ==
    /\ o.point.x <= position[1] /\ position[1] <= o.point.x + o.size.width
    /\ o.point.y <= position[2] /\ position[2] <= o.point.y + o.size.height

ProbePoints == {<<x, y>> : x \in {0, 4, 8, 9, 300, 590, 591}, y \in {0, 10, 20, 21, 40, 41}}

\* C4: the layout tree holds no layout object for an element whose final
\* display is none, nor for any descendant of such an element.
C4_NoObjectUnderDisplayNone ==
    LaidOut => \A n \in DOMAIN page.layout_view.objs : ~UnderDisplayNone(n)

\* C5: the root of the layout view, when present, is the layout object of
\* body; with no body, or a body whose display is none, the view is empty.
C5_RootIsBodyOrAbsent ==
    LaidOut =>
        LET body == GetTargetElementNode(dom, Document, "Body")
            root == page.layout_view.root
        IN  /\ root # 0 => root = body
            /\ (body = 0 \/ ResolvedDisplay(body) = "DisplayNone") => root = 0

\* C6: clicked returns Some(href) whenever the object hit is a child of an
\* `a` element with an href, whichever child it is, and None otherwise.
C6_ClickedOnChildOfAnchor ==
    clicked # None =>
        LET hit == FindNodeByPositionInternal(page.layout_view.objs, page.layout_view.root,
                                              clicked.position)
            a == IF hit = 0 THEN 0 ELSE dom[hit].parent
        IN  clicked.href =
                IF a # 0 /\ dom[a].kind = "Element" /\ dom[a].element_kind = "A"
                THEN GetAttribute(dom[a], S_href) ELSE None

\* C7: hit testing is complete: for a point inside the rectangle of at least
\* one layout object, find_node_by_position returns an object whose
\* rectangle contains the point.
C7_HitTestingComplete ==
    LaidOut =>
        \A position \in ProbePoints :
            (\E n \in DOMAIN page.layout_view.objs :
                Contains(page.layout_view.objs[n], position))
            => LET hit == FindNodeByPositionInternal(page.layout_view.objs,
                                                     page.layout_view.root, position)
               IN  hit # 0 /\ Contains(page.layout_view.objs[hit], position)

\* C7's case: a point inside some object and outside another, found in an
\* object other than the root
C7_Witness ==
    /\ pc = "painted"
    /\ \E position \in ProbePoints :
          LET hit == FindNodeByPositionInternal(page.layout_view.objs,
                                                page.layout_view.root, position)
          IN  /\ hit # 0 /\ hit # page.layout_view.root
              /\ \E n \in DOMAIN page.layout_view.objs :
                    ~Contains(page.layout_view.objs[n], position)


S_hello == <<"h","e","l","l","o">>
S_hi == <<"h","i">>
Lime == [name |-> <<"l","i","m","e">>, code |-> <<"#","0","0","f","f","0","0">>]
Red == [name |-> <<"r","e","d">>, code |-> <<"#","f","f","0","0","0","0">>]

\* receive_response has returned for the page
Received(html) == pc = "painted" /\ tokenizer.input = html

\* C8: after receive_response on the page whose head script runs
\* `var e=document.getElementById("t"); e.textContent="hello";` and whose
\* body holds `<p id="t">x</p>`, the only child of the p element is
\* Text("hello"), and the display list holds the Text item "hello" and no
\* Text item "x".
C8_TextContentReplacesChild ==
    Received(E2E6_Page) =>
        LET Only(child) ==
                /\ child # 0
                /\ dom[child].kind = "Text"
                /\ dom[child].text = S_hello
                /\ dom[child].next_sibling = 0
            P(p) == p # 0 /\ dom[p].element_kind = "P" /\ Only(dom[p].first_child)
        IN  /\ P(GetElementById(dom, Document, S_t))
            /\ \E i \in 1..Len(page.display_items) :
                  page.display_items[i].type = "Text" /\ page.display_items[i].text = S_hello
            /\ \A i \in 1..Len(page.display_items) :
                  page.display_items[i].type = "Text" => page.display_items[i].text # S_x

\* C8's case: the script has run to its end on that page, the page is
\* painted, and "hello" is on the display list
C8_Witness ==
    /\ Received(E2E6_Page)
    /\ js.status = "done" /\ Len(js.body) = 2
    /\ \E i \in 1..Len(page.display_items) :
          page.display_items[i].type = "Text" /\ page.display_items[i].text = S_hello

\* The display list of the page of C9, with the background of the
\* rectangle of p left open: a Rect for body with background #00ff00, a
\* Rect for p, and one Text "hi" with color #ff0000
StyledDisplayList(p_background) ==
    LET items == page.display_items
        body == GetTargetElementNode(dom, Document, "Body")
        p == GetTargetElementNode(dom, Document, "P")
    IN  /\ Len(items) = 3
        /\ <<items[1]>> = Paint(dom, page.layout_view.objs[body])
        /\ items[1].type = "Rect" /\ items[1].style.background_color = Lime
        /\ <<items[2]>> = Paint(dom, page.layout_view.objs[p])
        /\ items[2].type = "Rect" /\ items[2].style.background_color = p_background
        /\ items[3].type = "Text" /\ items[3].text = S_hi /\ items[3].style.color = Red

\* C9 as the code has it: after receive_response on the page with the
\* style `body{background-color:#00ff00;} p{color:red;}` and the body
\* `<p>hi</p>`, the display list is a Rect for body with background_color
\* #00ff00, then a Rect for p whose background_color is #00ff00 too,
\* inherited from body because p sets none and body's is not white, then
\* one Text "hi" with color #ff0000.
C9_ParagraphInheritsBackground == Received(E2E4_Page) => StyledDisplayList(Lime)

\* C9 as stated: on that page the Rect for p has the default
\* background_color #ffffff.
C9_ParagraphBackgroundDefault == Received(E2E4_Page) => StyledDisplayList(White)

\* C9's case: that page is painted, with three items on the display list
C9_Witness ==
    /\ Received(E2E4_Page)
    /\ Len(page.display_items) = 3
    /\ page.style.rules # <<>>

\* C10: executing a parsed Program aborts only when a call names a function
\* that is absent from the function table; any other program, whatever its
\* argument counts, member accesses, browser-API calls or arithmetic, runs
\* to completion.
C10_AbortsOnlyOnUndefinedFunction ==
    js.status = "panic" => js.reason = "function doesn't exist"



\* C11: for every sequence of JS tokens parse_ast terminates and returns a
\* Program; an unexpected construct becomes None, and the parser neither
\* aborts nor loops.
C11_ParseAstReturns == js.status \notin {"parser panic", "parser hang"}


\* The value a lookup of the name in the global environment yields
GlobalValue(name) == GetVariable(js.envs, {}, 1, name).value

\* C12: evaluating `a - b` yields the Number a - b for every pair of Number
\* operands, and Number(0) when an operand is not a Number.
C12_SubtractionOfNumbers ==
    (pc # "js" /\ js.body # <<>>) =>
        LET Difference(left, right) ==
                IF left.type = "NumericLiteral" /\ right.type = "NumericLiteral"
                THEN GlobalValue(<<"d">>) = RuntimeNumber(left.value - right.value)
                ELSE GlobalValue(<<"d">>) = RuntimeNumber(0)
            Init(init) == js.status = "done" /\ Difference(init.left, init.right)
        IN  Init(js.body[1].declarations[1].init)


\* C13: a variable declared in an outer environment is visible from an
\* inner one (a read yields the outer value) if and only if the inner
\* environment holds no binding of the name.  Read in or below the body of
\* f, `a` is the global one unless f declares its own; read as the argument
\* of the call, in the call's environment before the body runs, it is the
\* global one.
C13_OuterVisibleUnlessShadowed ==
    \A kind \in ScopeKinds, outer \in OuterValues, inner \in InnerValues :
        (pc # "js" /\ js.input = ScopeProgram(kind, outer, inner)) =>
            /\ js.status = "done"
            /\ GlobalValue(<<"r">>) =
                  RuntimeNumber(IF kind = "argument" \/ inner = 0 THEN outer ELSE inner)



\* The rule a qualified-rule segment writes: its selector and its one
\* declaration `a:b`
WrittenRule(segment) ==
    [selector |-> CASE segment = Rule_type -> TypeSelector(<<"p">>)
                    [] segment = Rule_class -> ClassSelector(<<"c">>)
                    [] segment = Rule_id -> IdSelector(<<"i">>),
     declarations |-> <<[property |-> <<"a">>, value |-> CssTok("Ident", <<"b">>)]>>]
\* The qualified rules written outside the at-rules of a stylesheet, in
\* source order
RulesOutsideAtRules(segments) ==
    LET Written(kept) == [i \in 1..Len(kept) |-> WrittenRule(kept[i])]
    IN  Written(SelectSeq(segments, LAMBDA s : s \in RuleSegments))

\* C14: for any stylesheet text, parsing ends and the parsed stylesheet is
\* exactly the qualified rules written outside at-rules, in source order,
\* each with its own selector and declarations; every at-rule is consumed
\* up to its closing `}` and discarded.
C14_AtRulesDiscarded ==
    \A segments \in Stylesheets :
        (css.input = Concat(segments) /\ css.status # "run") =>
            /\ css.status = "done"
            /\ css.rules = RulesOutsideAtRules(segments)


\* The Text layout objects of the page's layout tree
TextObjects ==
    {n \in DOMAIN page.layout_view.objs : page.layout_view.objs[n].kind = "Text"}
\* The number of Text display items the page holds
TextItems == Cardinality({i \in DOMAIN page.display_items : page.display_items[i].type = "Text"})
\* The row count compute_size used for the height of a Text object
TextRows(obj) == obj.size.height \div (CHAR_HEIGHT_WITH_PADDING * Ratio(obj.style.font_size))

\* C15: for every Text layout object, the number of Text display items
\* emitted for it (one per wrapped line) equals the row count used for its
\* height, ceil(CHAR_WIDTH * font_ratio * text length / CONTENT_AREA_WIDTH);
\* for a run of 200 `A` at the default constants this is 3.
C15_TextItemsEqualRows ==
    pc = "painted" =>
        \A n \in TextObjects :
            LET Rows(obj, width) ==
                    /\ TextRows(obj) = (width + CONTENT_AREA_WIDTH - 1) \div CONTENT_AREA_WIDTH
                    /\ TextItems = TextRows(obj)
                    /\ (dom[n].text = TextOf("run", 200) /\ obj.style.font_size = "Medium")
                           => TextItems = 3
                Object(obj) ==
                    Rows(obj, CHAR_WIDTH * Ratio(obj.style.font_size) * Len(dom[n].text))
            IN  Object(page.layout_view.objs[n])


\* C16: after any sequence of receive_response calls on a Page, its DOM,
\* stylesheet, layout tree and display list are exactly those obtained by
\* processing the most recent response alone on a fresh Page; nothing
\* derived from earlier responses persists.
C16_LatestResponseAlone ==
    pc = "painted" =>
        LET Alone(fresh) == ~fresh.panic /\ page = fresh.page /\ dom = fresh.dom
        IN  Alone(ReceiveResponseOf(NewPage, tokenizer.input))

\* C16's case: a page is painted from a response that holds no link, after
\* a click on the link of the page painted from an earlier response
C16_Witness ==
    /\ pc = "painted"
    /\ tokenizer.input = E2E4_Page
    /\ clicked # None
    /\ clicked.href = [type |-> "Some", value |-> S_u]
    /\ page.display_items # <<>>


\* C17: after layout, every layout object has point.x >= 0 and
\* point.y >= 0.
C17_PointsNonNegative ==
    LaidOut =>
        \A n \in DOMAIN page.layout_view.objs :
            /\ page.layout_view.objs[n].point.x >= 0
            /\ page.layout_view.objs[n].point.y >= 0

\* C17's case: a layout in which an object was placed below its previous
\* sibling, at that sibling's y plus its height
C17_Witness ==
    /\ LaidOut
    /\ \E n \in DOMAIN page.layout_view.objs :
          /\ page.layout_view.objs[n].point.y > 0
          /\ page.layout_view.objs[n].point.x >= 0

\* The GET that follows a Location value: to the host, port and path of the
\* URL it holds
AddressedTo(request, location) ==
    LET Parsed(r) ==
            r.type = "Ok" =>
                request = GetRequest(r.value.host, ParseU16(r.value.port), r.value.path)
    IN  Parsed(UrlParse(NewUrl(location)))

\* C18: once handle_url is over and its first GET returned a response: when
\* that response has status 302 and a Location header, handle_url returned
\* after exactly one further GET, addressed to the host, port and path of the
\* Location URL, and its result is the second response; for any other status,
\* or without a Location header, it returned the first response after no
\* further GET.
C18_RedirectFollowedOnce ==
    (pc \in {"returned", "panic"} /\ net.responses # <<>> /\ net.responses[1].type = "Ok") =>
        LET Followed(res, location) ==
                IF res.status_code = 302 /\ location.type = "Ok"
                THEN /\ pc = "returned"
                     /\ Len(net.requests) = 2
                     /\ Len(net.responses) = 2
                     /\ AddressedTo(net.requests[2], location.value)
                     /\ net.result = net.responses[2]
                ELSE /\ pc = "returned"
                     /\ Len(net.requests) = 1
                     /\ net.result = ROk(res)
            First(res) == Followed(res, HeaderValue(res, S_Location))
        IN  First(net.responses[1].value)

\* C19: HttpResponse::new on an input from which no line can be split off (no
\* line break after the leading whitespace is trimmed) returns an error of
\* kind UnexpectedInput.
C19_AbsentStatusLineUnexpectedInput ==
    (pc # "raw" /\ StrFind(ReplaceCrLf(TrimStart(net.input)), <<"\n">>) < 0) =>
        /\ pc = "returned"
        /\ net.result = RErr("UnexpectedInput")


\* The nodes met from node n along next_sibling, n first
RECURSIVE SiblingChain(_, _)
SiblingChain(d, n) == IF n = 0 THEN <<>> ELSE <<n>> \o SiblingChain(d, d[n].next_sibling)

\* The nodes reachable from node n along first_child and next_sibling
RECURSIVE ReachableFrom(_, _)
ReachableFrom(d, n) ==
    {n} \cup UNION {ReachableFrom(d, child) : child \in SeqRange(SiblingChain(d, d[n].first_child))}

\* C20: after tree construction every Element and Text node that was created
\* is reachable from the Document, and along first_child/next_sibling the
\* children of each node are in the order of creation, which is the order of
\* their tokens (nodes are numbered as they are created).
C20_TreeFollowsTokenOrder ==
    pc = "window" =>
        /\ \A n \in 2..Len(dom) : n \in ReachableFrom(dom, Document)
        /\ \A n \in 1..Len(dom) :
               LET Ordered(chain) == \A i \in 1..(Len(chain) - 1) : chain[i] < chain[i + 1]
               IN  Ordered(SiblingChain(dom, dom[n].first_child))


\* C21: in every DOM the tree builder produces, Text nodes are leaves: no
\* node has a Text node as its parent, and no Text node has a first child.
C21_TextNodesAreLeaves ==
    \A n \in 1..Len(dom) :
        /\ dom[n].parent # 0 => dom[dom[n].parent].kind # "Text"
        /\ dom[n].kind = "Text" => dom[n].first_child = 0


\* The last node of the chain first_child/next_sibling of node n, 0 when n
\* has no first child
LastOfChain(d, n) == IF d[n].first_child = 0 THEN 0 ELSE LastSibling(d, d[n].first_child)

\* C22: once the tree is built, and from then on through script execution,
\* for every DOM node that is alive: first_child is set if and only if some
\* live node has it as parent, and last_child is the last node reachable
\* from first_child along next_sibling.
C22_ChildLinksConsistent ==
    pc \notin {"new", "tree", "panic"} =>
        LET Consistent(live) ==
                \A n \in live :
                    /\ dom[n].first_child # 0 <=> \E m \in live : dom[m].parent = n
                    /\ dom[n].last_child = LastOfChain(dom, n)
        IN  Consistent(StrongFrom(dom, Document))


\* The number of places of s at which the pattern occurs
Occurrences(s, pattern) ==
    Cardinality({i \in 0..(Len(s) - Len(pattern)) : SubSeq(s, i + 1, i + Len(pattern)) = pattern})

\* The kinds of the children of node n, along first_child/next_sibling
ChildKinds(d, n) ==
    LET Kinds(chain) == [i \in 1..Len(chain) |-> d[chain[i]].element_kind]
    IN  Kinds(SiblingChain(d, d[n].first_child))

\* The characters of the Text nodes among the nodes, added up
RECURSIVE TextLength(_, _)
TextLength(d, nodes) ==
    IF nodes = {} THEN 0
    ELSE LET Counted(n) ==
                 (IF d[n].kind = "Text" THEN Occurrences(d[n].text, Seg_x) ELSE 0)
                 + TextLength(d, nodes \ {n})
         IN  Counted(CHOOSE n \in nodes : TRUE)

\* C23: when the input holds body content (the character x, or a p or a
\* element) and none of the tags <html>, <head>, <body>, the Document built
\* has one html element whose children are head and body, and the content
\* lies under body: as many p and a elements as the input has <p> and <a>
\* tags, and as many x in its Text nodes as the input has.
C23_StructuralTagsInserted ==
    (/\ pc = "style"
     /\ \A tag \in {Seg_html, Seg_head, Seg_body} : Occurrences(tokenizer.input, tag) = 0
     /\ \E content \in {Seg_x, Seg_p, Seg_a} : Occurrences(tokenizer.input, content) > 0) =>
        /\ ChildKinds(dom, Document) = <<"Html">>
        /\ ChildKinds(dom, dom[Document].first_child) = <<"Head", "Body">>
        /\ LET Under(nodes) ==
                   /\ Cardinality({n \in nodes : dom[n].element_kind = "P"})
                          = Occurrences(tokenizer.input, Seg_p)
                   /\ Cardinality({n \in nodes : dom[n].element_kind = "A"})
                          = Occurrences(tokenizer.input, Seg_a)
                   /\ TextLength(dom, nodes) = Occurrences(tokenizer.input, Seg_x)
           IN  Under(ReachableFrom(dom, LastOfChain(dom, dom[Document].first_child)))


\* The supported element set
SupportedTags == {S_html, S_head, S_style, S_script, S_body, S_p, S_h1, S_h2, S_a}

\* C24: an iteration of construct_tree that meets, in InHead mode, a start
\* tag whose name is outside the supported element set leaves the tree
\* builder in AfterHead mode.
C24_UnsupportedTagLeavesHead ==
    [][(/\ pc = "tree"
        /\ parser.mode = "InHead"
        /\ token # None
        /\ token.type = "StartTag"
        /\ token.tag \notin SupportedTags) => parser'.mode = "AfterHead"]_vars


\* The text of the Text child of the first element of the kind, <<>> when
\* the element has no child; None when there is no such element or its first
\* child is no Text node
RawTextOf(d, element_kind) ==
    LET Child(n) ==
            IF d[n].first_child = 0 THEN [type |-> "Some", value |-> <<>>]
            ELSE IF d[d[n].first_child].kind # "Text" THEN None
            ELSE [type |-> "Some", value |-> d[d[n].first_child].text]
        Element(n) == IF n = 0 THEN None ELSE Child(n)
    IN  Element(GetTargetElementNode(d, Document, element_kind))

\* C25: for the text `<style>content</style>` or `<script>content</script>`,
\* whatever the characters of the content are, once the tree is built the
\* Text child of the element holds exactly the content.
C25_RawTextKept ==
    pc = "style" =>
        \A tag \in {S_style, S_script}, content \in SeqsUpTo(RawTextChars, MaxRawText) :
            tokenizer.input = RawTextElement(tag, content) =>
                RawTextOf(dom, ElementKindFromStr(tag)) = [type |-> "Some", value |-> content]


\* C26: construct_tree terminates for every finite token sequence: the loop
\* always leaves (by returning the window, or by a panic), so no cycle of
\* insertion-mode transitions re-dispatches one token forever.
C26_ConstructTreeTerminates == <>(pc \in {"window", "panic"})

\* construct_tree returned after a single start tag `<p>` was re-dispatched
\* from Initial through BeforeHtml, BeforeHead, InHead and AfterHead to InBody
C26_Witness ==
    /\ pc = "window"
    /\ tokenizer.pos = 2
    /\ parser.mode = "InBody"
    /\ [n \in 1..Len(dom) |-> dom[n].element_kind] = <<"", "Html", "Head", "Body", "P">>


\* C27: parse_stylesheet terminates for every finite CSS token sequence, also
\* when an @-keyword, or a `:` after a type selector, is never followed by
\* `{`: no loop of the parser runs forever.
C27_ParseStylesheetTerminates == css.status # "hang"


\* The layout objects on the child chain that starts at object c
RECURSIVE LayoutChain(_, _)
LayoutChain(objs, c) ==
    IF c = 0 THEN {} ELSE {c} \cup LayoutChain(objs, objs[c].next_sibling)

\* The children of layout object p: the chain from its first_child
LayoutChildren(objs, p) == LayoutChain(objs, objs[p].first_child)

\* The value a property left unset by cascading takes below a parent
InheritedOr(parent_value, initial, default) ==
    IF parent_value # initial THEN parent_value ELSE default

\* C28: for every layout object that is a child of another layout object,
\* at whichever position among the parent's children, each of
\* background-color, color, font-size and text-decoration that cascading
\* left unset takes the parent's computed value when that value differs from
\* the initial value, and the initial value otherwise.
C28_UnsetPropertiesInherit ==
    LaidOut =>
        LET objs == page.layout_view.objs
            Inherits(style, cascaded, parent, node) ==
                /\ cascaded.background_color = None =>
                       style.background_color
                           = InheritedOr(parent.background_color, White, White)
                /\ cascaded.color = None =>
                       style.color = InheritedOr(parent.color, Black, Black)
                /\ cascaded.font_size = Unset =>
                       style.font_size
                           = InheritedOr(parent.font_size, "Medium", FontSizeDefault(node))
                /\ cascaded.text_decoration = Unset =>
                       style.text_decoration
                           = InheritedOr(parent.text_decoration, "None",
                                         TextDecorationDefault(node))
        IN  \A p \in DOMAIN objs : \A n \in LayoutChildren(objs, p) :
                Inherits(objs[n].style,
                         CascadeRules(dom[n], NewComputedStyle, page.style.rules),
                         objs[p].style, dom[n])

\* C29: every layout object other than the root is attached to its parent:
\* its parent link refers to the layout object whose first_child /
\* next_sibling child chain contains it.
C29_AttachedToParent ==
    LaidOut =>
        LET objs == page.layout_view.objs
        IN  \A n \in DOMAIN objs :
                n # page.layout_view.root =>
                    /\ objs[n].parent \in DOMAIN objs
                    /\ n \in LayoutChildren(objs, objs[n].parent)


\* The value the last declaration of the property gives, in source order,
\* among the written rules whose selector matches the node; None without one
LastGiven(rules, node, property) ==
    LET matching == Concat([k \in 1..Len(rules) |->
                               IF IsNodeSelected(node, rules[k].selector)
                               THEN rules[k].declarations ELSE <<>>])
        hits == {i \in 1..Len(matching) : matching[i].property = property}
    IN  IF hits = {} THEN None
        ELSE [type |-> "Some",
              value |-> matching[CHOOSE i \in hits : \A j \in hits : j <= i].value]

\* The computed value of a property in a style
ComputedValue(style, property) ==
    CASE property = S_color -> style.color
      [] property = S_background_color -> style.background_color
      [] property = S_display -> style.display

\* The written rules a style text is made of, in source order
RECURSIVE RulesWritten(_)
RulesWritten(text) ==
    LET Starts(rule) == Len(rule.text) <= Len(text)
                        /\ SubSeq(text, 1, Len(rule.text)) = rule.text
        First(rule) == <<rule>> \o RulesWritten(SubSeq(text, Len(rule.text) + 1, Len(text)))
    IN  IF text = <<>> THEN <<>>
        ELSE First(CHOOSE rule \in SourceRules : Starts(rule))

\* C30: rules are applied in document order with no specificity: when
\* several rules match an element, or one rule declares a property more
\* than once, the computed value of each property is the one given by the
\* declaration that comes last in source order (an element whose last
\* display declaration is none has no layout object).
C30_LastDeclarationWins ==
    LaidOut =>
        LET objs == page.layout_view.objs
            Wins(rules) ==
                \A n \in SeqRange(SiblingChain(dom,
                             dom[GetTargetElementNode(dom, Document, "Body")].first_child)) :
                    IF LastGiven(rules, dom[n], S_display)
                           = [type |-> "Some", value |-> "DisplayNone"]
                    THEN n \notin DOMAIN objs
                    ELSE /\ n \in DOMAIN objs
                         /\ \A property \in {S_color, S_background_color, S_display} :
                                LastGiven(rules, dom[n], property) # None =>
                                    ComputedValue(objs[n].style, property)
                                        = LastGiven(rules, dom[n], property).value
        IN  /\ page.style.rules = css.rules
            /\ Wins(RulesWritten(css.input))

\* C30's case: `#i{color:lime;}` comes before `p{color:red;}`, both match
\* the first element, and its computed color is red
C30_Witness ==
    /\ LaidOut
    /\ css.input = StyleTextOf(<<Rule_i_lime, Rule_p_red>>)
    /\ \E n \in DOMAIN page.layout_view.objs :
          /\ IsNodeSelected(dom[n], Rule_i_lime.selector)
          /\ IsNodeSelected(dom[n], Rule_p_red.selector)
          /\ page.layout_view.objs[n].style.color = NamedColor(S_red)


\* The default of a property for a node: white, black, and the element-kind
\* default display
PropertyDefault(node, property) ==
    CASE property = S_color -> Black
      [] property = S_background_color -> White
      [] property = S_display -> DisplayTypeDefault(node)

\* C31: style application substitutes the property default for an unknown
\* value: an element whose last matching declaration of background-color,
\* color or display gives a value that is not recognised has that
\* property's default (white, black, the element-kind default display).
C31_UnknownValueGivesDefault ==
    LaidOut =>
        \A rules \in SeqsUpTo(DefaultRules, MaxDefaultRules) :
            css.input = StyleTextOf(rules) =>
                LET objs == page.layout_view.objs
                IN  \A n \in SeqRange(SiblingChain(dom,
                                 dom[GetTargetElementNode(dom, Document, "Body")].first_child)) :
                        \A property \in {S_color, S_background_color, S_display} :
                            LastGiven(rules, dom[n], property)
                                    = [type |-> "Some", value |-> Unrecognised] =>
                                /\ n \in DOMAIN objs
                                /\ ComputedValue(objs[n].style, property)
                                       = PropertyDefault(dom[n], property)


\* The Number the program of the kind leaves in `r`, given how it ended
LeavesInR(kind, v, w, n) ==
    (pc # "js" /\ js.input = FrameProgram(kind, v, w)) =>
        /\ js.status = "done"
        /\ GlobalValue(<<"r">>) = RuntimeNumber(n)

\* C32: in a call f(e1,...,en) of a user function declared with parameters
\* p1,...,pn the body runs in a fresh frame in which each pi is bound to the
\* value of ei, whether or not a variable named pi is bound in an enclosing
\* frame, and the call returns the value of the body.
C32_ParametersBoundInFreshFrame ==
    \A v \in FrameValues, w \in FrameValues :
        /\ LeavesInR("param", v, w, v)
        /\ LeavesInR("param_bound_outside", v, w, v)
        /\ LeavesInR("two_params", v, w, v + w)

\* C33: an assignment `x = v` whose left side is an Identifier updates the
\* binding of x in the nearest enclosing frame that holds x, also when that
\* frame is outside the frame in which the assignment executes, so that a
\* later read of x from that frame yields v.
C33_AssignmentUpdatesNearestFrame ==
    \A v \in FrameValues, w \in FrameValues :
        /\ LeavesInR("assign_same", v, w, v)
        /\ LeavesInR("assign_outer", v, w, v)

\* C34: when the same function name is declared more than once, a call
\* executed after both declarations runs the body of the declaration
\* encountered first.
C34_FirstDeclarationCalled ==
    \A v \in FrameValues, w \in FrameValues : LeavesInR("function_twice", v, w, v)

\* C35: after `var x = v` executes in a frame, reads of x from that frame
\* yield v, whatever bindings of x existed before in that frame or in outer
\* frames.
C35_DeclarationBindsInFrame ==
    \A v \in FrameValues, w \in FrameValues :
        /\ LeavesInR("var_twice", v, w, v)
        /\ LeavesInR("var_inner", v, w, v)


\* C36: within a function body, executing a return statement ends the call:
\* the value of the call is the value of the return argument, and the
\* statements that follow the return in the body are not executed.
C36_ReturnEndsCall ==
    \A v \in FrameValues, w \in FrameValues :
        /\ LeavesInR("return_last", v, w, v)
        /\ LeavesInR("return_twice", v, w, v)
        /\ LeavesInR("return_then_expression", v, w, v)


\* An identifier character: alphanumeric, underscore or dollar
IsIdentifierChar(c) == IsAsciiAlphanumeric(c) \/ c \in {"_", "$"}

\* The maximal run of identifier characters of the input from position pos
RECURSIVE IdentifierRun(_, _)
IdentifierRun(input, pos) ==
    IF pos >= Len(input) \/ ~IsIdentifierChar(input[pos + 1]) THEN <<>>
    ELSE <<input[pos + 1]>> \o IdentifierRun(input, pos + 1)

\* The lexer stands before a word: after the spaces, a maximal run of
\* identifier characters begins that does not begin with a digit
BeforeWord(input, pos) ==
    LET Run(at) ==
            /\ at < Len(input)
            /\ IsIdentifierChar(input[at + 1]) /\ ~IsAsciiDigit(input[at + 1])
            /\ at > 0 => ~IsIdentifierChar(input[at])
    IN  Run(SkipWhitespace(input, pos))

\* C37: the lexer emits a Keyword token only for a whole word equal to var,
\* function or return; every other maximal run of identifier characters,
\* also one that merely begins with a reserved word, is emitted as a single
\* Identifier token.
C37_KeywordOnlyForWholeWord ==
    [][(pc = "lex" /\ BeforeWord(js.input, js.pos)) =>
          LET Emitted(word) ==
                  /\ pc' # "panic"
                  /\ token' = IF \E w \in 1..Len(RESERVED_WORDS) : RESERVED_WORDS[w] = word
                              THEN JsKeyword(word) ELSE JsIdentifier(word)
          IN  Emitted(IdentifierRun(js.input, SkipWhitespace(js.input, js.pos)))]_vars


\* The characters that end an unquoted attribute value: whitespace, `/`, `>`
UnquotedEnd == {" ", "\n", "/", ">"}

\* The characters of the text before the first one that ends an unquoted value
RECURSIVE UnquotedValue(_)
UnquotedValue(text) ==
    IF text = <<>> \/ Head(text) \in UnquotedEnd THEN <<>>
    ELSE <<Head(text)>> \o UnquotedValue(Tail(text))

\* C38: an unquoted attribute value ends at the first whitespace, `/` or
\* `>` character that follows it, and that character is not part of the
\* value.
C38_UnquotedValueEnds ==
    \A value \in SeqsUpTo(UnquotedChars, MaxUnquoted) :
        (/\ tokenizer.input = AttributeText(value)
         /\ value # <<>> /\ Head(value) \notin UnquotedEnd
         /\ token.type = "StartTag") =>
            /\ token.attributes # <<>>
            /\ token.attributes[1].name = <<"b">>
            /\ token.attributes[1].value = UnquotedValue(value)


\* C39: the width of a Text layout object is CHAR_WIDTH * font_ratio *
\* (number of code points of its text), clamped to CONTENT_AREA_WIDTH, for
\* every text, text with multi-byte characters included.
C39_TextWidthCountsCodePoints ==
    pc \in {"layout", "painted"} =>
        \A n \in DOMAIN page.layout_view.objs :
            LET Width(obj, width) ==
                    obj.size.width = IF width > CONTENT_AREA_WIDTH
                                     THEN CONTENT_AREA_WIDTH ELSE width
                Object(obj) ==
                    obj.kind = "Text" =>
                        Width(obj, CHAR_WIDTH * Ratio(obj.style.font_size) * Len(dom[n].text))
            IN  Object(page.layout_view.objs[n])


\* C40: after sizing, the width of every Block layout object equals the
\* final width of the layout object that contains it (CONTENT_AREA_WIDTH for
\* the root), whatever the kind of that containing object.
C40_BlockWidthIsContainerWidth ==
    LaidOut =>
        LET objs == page.layout_view.objs
            root == page.layout_view.root
        IN  /\ (root # 0 /\ objs[root].kind = "Block") =>
                   objs[root].size.width = CONTENT_AREA_WIDTH
            /\ \A p \in DOMAIN objs : \A n \in LayoutChildren(objs, p) :
                   objs[n].kind = "Block" => objs[n].size.width = objs[p].size.width

=============================================================================
